---- MODULE Spec2Model ----
(***************************************************************************)
(* Model of the rjw-metoffice conversion layer: geographic validation      *)
(* (units.rs), the weather-code decoder (units.rs), the hourly,            *)
(* three-hourly and daily raw-to-domain conversions (hourly.rs,            *)
(* three_hourly.rs, daily.rs), the forecast envelope, its parse entry      *)
(* points and request URLs (forecast.rs), and the deserialization of the   *)
(* provider's document (parse.rs), and the UV advisory tiers (lib.rs).      *)
(*                                                                         *)
(* The library is a set of pure functions.  Each function is an operator   *)
(* computed the way the Rust code computes it; each specification below    *)
(* lets a caller invoke the functions on inputs drawn from bounded sample  *)
(* sets and records the value returned.                                    *)
(***************************************************************************)
EXTENDS Integers, Sequences, FiniteSets, TLC

VARIABLES
    codes,      \* the i8 codes handed to Conditions::try_from (two call sites)
    conds,      \* what each of the two calls returned
    call,       \* the units.rs operation the caller invoked last, with its argument
    ret,        \* what that operation returned
    keptLat,    \* a Latitude the caller holds on to (Latitude is Copy)
    keptLon,    \* a Longitude the caller holds on to
    rawCall,    \* the conversion or parse invoked last and its input
    rawRet,     \* what that conversion did: Ok, Err or a panic
    attempted,  \* the series places whose record conversion that call ran, in order
    threads     \* per thread: the envelope it converts and how far it has got

vars == <<codes, conds, call, ret, keptLat, keptLon, rawCall, rawRet, attempted, threads>>

(***************************************************************************)
(* Results.  A Rust call either returns Ok(v), returns Err(e), or panics   *)
(* (unwrap on None, Vec::remove out of range).  A panic is deterministic   *)
(* in Rust: it is an outcome of its own, not an Err.                       *)
(***************************************************************************)
Ok(v) == [tag |-> "Ok", val |-> v]

Err(e) == [tag |-> "Err", err |-> e]

Panic(msg) == [tag |-> "Panic", msg |-> msg]

NotCalled == [tag |-> "NotCalled"]

IsOk(r) == r.tag = "Ok"

IsErr(r) == r.tag = "Err"

IsPanic(r) == r.tag = "Panic"

\* Option<T>: None is the empty sequence, Some(x) the one-element sequence.
None == <<>>

Some(x) == <<x>>

IsNone(o) == Len(o) = 0

IsSome(o) == Len(o) = 1

(***************************************************************************)
(* error.rs: the three error kinds.                                        *)
(***************************************************************************)
GeographicDegreesOutOfBounds == [kind |-> "GeographicDegreesOutOfBounds"]

UnknownWeatherCondition(code) == [kind |-> "UnknownWeatherCondition", code |-> code]

Serde(inner) == [kind |-> "Serde", inner |-> inner]

(***************************************************************************)
(* Floating point.  A float is a sign, a kind and a magnitude; the         *)
(* magnitude of a finite float counts grid steps of 2^-FracBits.  Negative *)
(* zero, the infinities and NaN are values of their own.                   *)
(***************************************************************************)
FracBits == 1

RECURSIVE Pow2(_)
Pow2(n) == IF n = 0 THEN 1 ELSE 2 * Pow2(n - 1)

Unit == Pow2(FracBits)

Fin(s, m) == [k |-> "fin", s |-> s, m |-> m]

NaN == [k |-> "nan", s |-> 1, m |-> 0]

PosInf == [k |-> "inf", s |-> 1, m |-> 0]

NegInf == [k |-> "inf", s |-> -1, m |-> 0]

NegZero == Fin(-1, 0)

\* The float with n grid steps.
Grid(n) == IF n < 0 THEN Fin(-1, -n) ELSE Fin(1, n)

\* The float literal n.0, for an integer n.
Lit(n) == Grid(n * Unit)

IsNaN(x) == x.k = "nan"

IsFinite(x) == x.k = "fin"

Steps(x) == x.s * x.m

\* IEEE 754 a <= b: false when either side is NaN; -0.0 and 0.0 compare equal.
FLe(a, b) ==
    CASE IsNaN(a) \/ IsNaN(b) -> FALSE
      [] a = NegInf \/ b = PosInf -> TRUE
      [] a = PosInf \/ b = NegInf -> FALSE
      [] OTHER -> Steps(a) <= Steps(b)

\* IEEE 754 a == b (Rust's PartialEq for floats).
FEq(a, b) == FLe(a, b) /\ FLe(b, a)

\* The range pattern lo..=hi on a float: lo <= d && d <= hi.
MatchesRange(d, lo, hi) == FLe(lo, d) /\ FLe(d, hi)

\* f32 keeps 24 significant bits.
F32MantissaBits == 24

RECURSIVE BitLen(_)
BitLen(m) == IF m = 0 THEN 0 ELSE 1 + BitLen(m \div 2)

\* Round a magnitude to 24 significant bits, ties to even.
RoundMantissa(m) ==
    IF BitLen(m) <= F32MantissaBits THEN m
    ELSE LET step == Pow2(BitLen(m) - F32MantissaBits)
             q == m \div step
             r == m % step
             up == (2 * r > step) \/ (2 * r = step /\ q % 2 = 1)
         IN  (IF up THEN q + 1 ELSE q) * step

\* `x as f32`: NaN and the infinities stay, a finite value is rounded to the
\* nearest f32 (the sample magnitudes are far below f32::MAX).
AsF32(x) == IF IsFinite(x) THEN Fin(x.s, RoundMantissa(x.m)) ELSE x

(***************************************************************************)
(* units.rs: unit newtypes.                                                *)
(***************************************************************************)
Metres(x) == [unit |-> "Metres", v |-> x]

Celsius(x) == [unit |-> "Celsius", v |-> x]

MetresPerSecond(x) == [unit |-> "MetresPerSecond", v |-> x]

Degrees(x) == [unit |-> "Degrees", v |-> x]

Percentage(x) == [unit |-> "Percentage", v |-> x]

Pascals(x) == [unit |-> "Pascals", v |-> x]

UvIndex(x) == [unit |-> "UvIndex", v |-> x]

Millimetres(x) == [unit |-> "Millimetres", v |-> x]

MillimetresPerHour(x) == [unit |-> "MillimetresPerHour", v |-> x]

\* UvIndex::advice_message: the match on the wrapped u8 (0..=2, 3..=5, 6..).
AdviceMessage(uv) ==
    CASE uv.v \in 0..2 -> "No protection required. You can safely stay outside."
      [] uv.v \in 3..5 -> "Seek shade during midday hours, cover up and wear sunscreen."
      [] uv.v >= 6 ->
            "Avoid being outside during midday hours. Shirt, sunscreen and hat are essential."

(***************************************************************************)
(* lib.rs: the UV index as an advisory tier.  A tier value is its variant  *)
(* and the u8 the variant carries; None carries nothing.                   *)
(***************************************************************************)
U8Max == 255

U8 == 0 .. U8Max

UvTier(variant, payload) == [variant |-> variant, payload |-> payload]

\* From<u8> as it would be with the High band written 6..=8.
UvIndexFromHighWidened(value) ==
    CASE value = 0 -> UvTier("None", None)
      [] value \in 1..2 -> UvTier("Low", Some(value))
      [] value \in 3..5 -> UvTier("Moderate", Some(value))
      [] value \in 6..8 -> UvTier("High", Some(value))
      [] value \in 9..10 -> UvTier("VeryHigh", Some(value))
      [] value >= 11 -> UvTier("Extreme", Some(value))

\* impl From<u8> for UvIndex: the match on the value, arm by arm.
UvIndexFrom(value) ==
    CASE value = 0 -> UvTier("None", None)
      [] value \in 1..2 -> UvTier("Low", Some(value))
      [] value \in 3..5 -> UvTier("Moderate", Some(value))
      [] value \in 6..7 -> UvTier("High", Some(value))
      [] value \in 8..10 -> UvTier("VeryHigh", Some(value))
      [] value >= 11 -> UvTier("Extreme", Some(value))

(***************************************************************************)
(* units.rs: Latitude, Longitude, Coordinates.                             *)
(***************************************************************************)
LatitudeLimit == 90

LongitudeLimit == 180

Latitude(d) == [type |-> "Latitude", deg |-> d]

Longitude(d) == [type |-> "Longitude", deg |-> d]

\* A mutant of LatitudeNew: the upper endpoint is excluded (-90.0..90.0).
LatitudeNewHalfOpen(d) ==
    IF MatchesRange(d, Lit(-LatitudeLimit), Lit(LatitudeLimit)) /\ ~FEq(d, Lit(LatitudeLimit))
    THEN Ok(Latitude(d))
    ELSE Err(GeographicDegreesOutOfBounds)

LatitudeNew(d) ==
    IF MatchesRange(d, Lit(-LatitudeLimit), Lit(LatitudeLimit))
    THEN Ok(Latitude(d))
    ELSE Err(GeographicDegreesOutOfBounds)

LatitudeAsFloat(lat) == lat.deg

LatitudeTryFrom(value) == LatitudeNew(value)

\* A mutant of LongitudeNew: the comparison is written with NaN falling through
\* (!(d < -180.0 || d > 180.0)), so NaN is accepted.
LongitudeNewNaNThrough(d) ==
    IF IsNaN(d) \/ MatchesRange(d, Lit(-LongitudeLimit), Lit(LongitudeLimit))
    THEN Ok(Longitude(d))
    ELSE Err(GeographicDegreesOutOfBounds)

LongitudeNew(d) ==
    IF MatchesRange(d, Lit(-LongitudeLimit), Lit(LongitudeLimit))
    THEN Ok(Longitude(d))
    ELSE Err(GeographicDegreesOutOfBounds)

LongitudeAsFloat(lon) == lon.deg

LongitudeTryFrom(value) == LongitudeNew(value)

\* The struct literal Coordinates { latitude, longitude, altitude }.
Coordinates(latitude, longitude, altitude) ==
    [latitude |-> latitude, longitude |-> longitude, altitude |-> altitude]

\* A mutant of CoordinatesTryFrom: the array is destructured as [lat, lon, alt].
CoordinatesTryFromLatFirst(value) ==
    LET lat == value[1]
        lon == value[2]
        alt == value[3]
        latitude == LatitudeNew(lat)
        longitude == LongitudeNew(lon)
    IN  IF IsErr(latitude) THEN latitude
        ELSE IF IsErr(longitude) THEN longitude
        ELSE Ok(Coordinates(latitude.val, longitude.val, Metres(AsF32(alt))))

\* A mutant of CoordinatesTryFrom: only the latitude is validated, the longitude
\* is stored as given.
CoordinatesTryFromLonUnchecked(value) ==
    LET lon == value[1]
        lat == value[2]
        alt == value[3]
        latitude == LatitudeNew(lat)
    IN  IF IsErr(latitude) THEN latitude
        ELSE Ok(Coordinates(latitude.val, Longitude(lon), Metres(AsF32(alt))))

\* impl TryFrom<[f64; 3]> for Coordinates.  `?` returns the first Err.
CoordinatesTryFrom(value) ==
    LET lon == value[1]
        lat == value[2]
        alt == value[3]
        latitude == LatitudeNew(lat)
        longitude == LongitudeNew(lon)
    IN  IF IsErr(latitude) THEN latitude
        ELSE IF IsErr(longitude) THEN longitude
        ELSE Ok(Coordinates(latitude.val, longitude.val, Metres(AsF32(alt))))

\* #[serde(try_from = "[f64; 3]")]: the array is deserialized, handed to
\* try_from, and a failure becomes a deserializer (serde_json) error.
DeserializeCoordinates(value) ==
    LET c == CoordinatesTryFrom(value)
    IN  IF IsOk(c) THEN c ELSE Err(Serde("invalid geographic degrees"))

(***************************************************************************)
(* units.rs: the weather-code decoder.  A Conditions value is the name of  *)
(* its variant.                                                            *)
(***************************************************************************)
I8Min == -128

I8Max == 127

I8 == I8Min .. I8Max

\* A mutant of ConditionsTryFrom: code 3 yields the night sibling of code 2.
ConditionsTryFromSiblingsMerged(code) ==
    CASE code = -1 -> Ok("TraceRain")
      [] code = 0 -> Ok("ClearNight")
      [] code = 1 -> Ok("SunnyDay")
      [] code = 2 -> Ok("PartlyCloudyNight")
      [] code = 3 -> Ok("PartlyCloudyNight")
      [] code = 5 -> Ok("Mist")
      [] code = 6 -> Ok("Fog")
      [] code = 7 -> Ok("Cloudy")
      [] code = 8 -> Ok("Overcast")
      [] code = 9 -> Ok("LightRainShowerNight")
      [] code = 10 -> Ok("LightRainShowerDay")
      [] code = 11 -> Ok("Drizzle")
      [] code = 12 -> Ok("LightRain")
      [] code = 13 -> Ok("HeavyRainShowerNight")
      [] code = 14 -> Ok("HeavyRainShowerDay")
      [] code = 15 -> Ok("HeavyRain")
      [] code = 16 -> Ok("SleetShowerNight")
      [] code = 17 -> Ok("SleetShowerDay")
      [] code = 18 -> Ok("Sleet")
      [] code = 19 -> Ok("HailShowerNight")
      [] code = 20 -> Ok("HailShowerDay")
      [] code = 21 -> Ok("Hail")
      [] code = 22 -> Ok("LightSnowShowerNight")
      [] code = 23 -> Ok("LightSnowShowerDay")
      [] code = 24 -> Ok("LightSnow")
      [] code = 25 -> Ok("HeavySnowShowerNight")
      [] code = 26 -> Ok("HeavySnowShowerDay")
      [] code = 27 -> Ok("HeavySnow")
      [] code = 28 -> Ok("ThunderShowerNight")
      [] code = 29 -> Ok("ThunderShowerDay")
      [] code = 30 -> Ok("Thunder")
      [] OTHER -> Err(UnknownWeatherCondition(code))

\* A mutant of ConditionsTryFrom: code 4 yields a placeholder variant instead
\* of failing.
ConditionsTryFromPlaceholder(code) ==
    CASE code = -1 -> Ok("TraceRain")
      [] code = 0 -> Ok("ClearNight")
      [] code = 1 -> Ok("SunnyDay")
      [] code = 2 -> Ok("PartlyCloudyNight")
      [] code = 3 -> Ok("PartlyCloudyDay")
      [] code = 4 -> Ok("NotUsed")
      [] code = 5 -> Ok("Mist")
      [] code = 6 -> Ok("Fog")
      [] code = 7 -> Ok("Cloudy")
      [] code = 8 -> Ok("Overcast")
      [] code = 9 -> Ok("LightRainShowerNight")
      [] code = 10 -> Ok("LightRainShowerDay")
      [] code = 11 -> Ok("Drizzle")
      [] code = 12 -> Ok("LightRain")
      [] code = 13 -> Ok("HeavyRainShowerNight")
      [] code = 14 -> Ok("HeavyRainShowerDay")
      [] code = 15 -> Ok("HeavyRain")
      [] code = 16 -> Ok("SleetShowerNight")
      [] code = 17 -> Ok("SleetShowerDay")
      [] code = 18 -> Ok("Sleet")
      [] code = 19 -> Ok("HailShowerNight")
      [] code = 20 -> Ok("HailShowerDay")
      [] code = 21 -> Ok("Hail")
      [] code = 22 -> Ok("LightSnowShowerNight")
      [] code = 23 -> Ok("LightSnowShowerDay")
      [] code = 24 -> Ok("LightSnow")
      [] code = 25 -> Ok("HeavySnowShowerNight")
      [] code = 26 -> Ok("HeavySnowShowerDay")
      [] code = 27 -> Ok("HeavySnow")
      [] code = 28 -> Ok("ThunderShowerNight")
      [] code = 29 -> Ok("ThunderShowerDay")
      [] code = 30 -> Ok("Thunder")
      [] OTHER -> Err(UnknownWeatherCondition(code))

\* impl TryFrom<i8> for Conditions.
ConditionsTryFrom(code) ==
    CASE code = -1 -> Ok("TraceRain")
      [] code = 0 -> Ok("ClearNight")
      [] code = 1 -> Ok("SunnyDay")
      [] code = 2 -> Ok("PartlyCloudyNight")
      [] code = 3 -> Ok("PartlyCloudyDay")
      [] code = 5 -> Ok("Mist")
      [] code = 6 -> Ok("Fog")
      [] code = 7 -> Ok("Cloudy")
      [] code = 8 -> Ok("Overcast")
      [] code = 9 -> Ok("LightRainShowerNight")
      [] code = 10 -> Ok("LightRainShowerDay")
      [] code = 11 -> Ok("Drizzle")
      [] code = 12 -> Ok("LightRain")
      [] code = 13 -> Ok("HeavyRainShowerNight")
      [] code = 14 -> Ok("HeavyRainShowerDay")
      [] code = 15 -> Ok("HeavyRain")
      [] code = 16 -> Ok("SleetShowerNight")
      [] code = 17 -> Ok("SleetShowerDay")
      [] code = 18 -> Ok("Sleet")
      [] code = 19 -> Ok("HailShowerNight")
      [] code = 20 -> Ok("HailShowerDay")
      [] code = 21 -> Ok("Hail")
      [] code = 22 -> Ok("LightSnowShowerNight")
      [] code = 23 -> Ok("LightSnowShowerDay")
      [] code = 24 -> Ok("LightSnow")
      [] code = 25 -> Ok("HeavySnowShowerNight")
      [] code = 26 -> Ok("HeavySnowShowerDay")
      [] code = 27 -> Ok("HeavySnow")
      [] code = 28 -> Ok("ThunderShowerNight")
      [] code = 29 -> Ok("ThunderShowerDay")
      [] code = 30 -> Ok("Thunder")
      [] OTHER -> Err(UnknownWeatherCondition(code))

\* enum Conditions: its thirty-one variants.
ConditionsVariants ==
    {"TraceRain", "ClearNight", "SunnyDay", "PartlyCloudyNight",
     "PartlyCloudyDay", "Mist", "Fog", "Cloudy", "Overcast",
     "LightRainShowerNight", "LightRainShowerDay", "Drizzle", "LightRain",
     "HeavyRainShowerNight", "HeavyRainShowerDay", "HeavyRain",
     "SleetShowerNight", "SleetShowerDay", "Sleet", "HailShowerNight",
     "HailShowerDay", "Hail", "LightSnowShowerNight", "LightSnowShowerDay",
     "LightSnow", "HeavySnowShowerNight", "HeavySnowShowerDay",
     "HeavySnow", "ThunderShowerNight", "ThunderShowerDay", "Thunder"}

\* Display as it would be with the sleet showers given the text of Sleet.
ConditionsDisplaySleetMerged(c) ==
    CASE c = "TraceRain" -> "Trace of rain"
      [] c = "ClearNight" -> "Clear"
      [] c = "SunnyDay" -> "Sunny"
      [] c \in {"PartlyCloudyNight", "PartlyCloudyDay"} -> "Partly Cloudy"
      [] c = "Mist" -> "Mist"
      [] c = "Fog" -> "Fog"
      [] c = "Cloudy" -> "Cloudy"
      [] c = "Overcast" -> "Overcast"
      [] c \in {"LightRainShowerNight", "LightRainShowerDay"} -> "Light rain shower"
      [] c = "Drizzle" -> "Drizzle"
      [] c = "LightRain" -> "Light rain"
      [] c \in {"HeavyRainShowerNight", "HeavyRainShowerDay"} -> "Heavy rain shower"
      [] c = "HeavyRain" -> "Heavy rain"
      [] c \in {"SleetShowerNight", "SleetShowerDay"} -> "Sleet"
      [] c = "Sleet" -> "Sleet"
      [] c \in {"HailShowerNight", "HailShowerDay"} -> "Hail shower"
      [] c = "Hail" -> "Hail"
      [] c \in {"LightSnowShowerNight", "LightSnowShowerDay"} -> "Light snow shower"
      [] c = "LightSnow" -> "Light snow"
      [] c \in {"HeavySnowShowerNight", "HeavySnowShowerDay"} -> "Heavy snow shower"
      [] c = "HeavySnow" -> "Heavy snow"
      [] c \in {"ThunderShowerNight", "ThunderShowerDay"} -> "Thunder shower"
      [] c = "Thunder" -> "Thunder"

\* impl Display for Conditions: the match from variant to text, arm by arm
\* (an or-pattern is one arm).
ConditionsDisplay(c) ==
    CASE c = "TraceRain" -> "Trace of rain"
      [] c = "ClearNight" -> "Clear"
      [] c = "SunnyDay" -> "Sunny"
      [] c \in {"PartlyCloudyNight", "PartlyCloudyDay"} -> "Partly Cloudy"
      [] c = "Mist" -> "Mist"
      [] c = "Fog" -> "Fog"
      [] c = "Cloudy" -> "Cloudy"
      [] c = "Overcast" -> "Overcast"
      [] c \in {"LightRainShowerNight", "LightRainShowerDay"} -> "Light rain shower"
      [] c = "Drizzle" -> "Drizzle"
      [] c = "LightRain" -> "Light rain"
      [] c \in {"HeavyRainShowerNight", "HeavyRainShowerDay"} -> "Heavy rain shower"
      [] c = "HeavyRain" -> "Heavy rain"
      [] c \in {"SleetShowerNight", "SleetShowerDay"} -> "Sleet shower"
      [] c = "Sleet" -> "Sleet"
      [] c \in {"HailShowerNight", "HailShowerDay"} -> "Hail shower"
      [] c = "Hail" -> "Hail"
      [] c \in {"LightSnowShowerNight", "LightSnowShowerDay"} -> "Light snow shower"
      [] c = "LightSnow" -> "Light snow"
      [] c \in {"HeavySnowShowerNight", "HeavySnowShowerDay"} -> "Heavy snow shower"
      [] c = "HeavySnow" -> "Heavy snow"
      [] c \in {"ThunderShowerNight", "ThunderShowerDay"} -> "Thunder shower"
      [] c = "Thunder" -> "Thunder"

(***************************************************************************)
(* daily.rs: the daily conversion.  A raw record is a record of the raw    *)
(* fields daily.rs reads; the fields it tests with is_none() or unwrap()   *)
(* are Options.                                                            *)
(***************************************************************************)
TemperaturePrediction(most_likely, upper_bound, lower_bound) ==
    [most_likely |-> most_likely, upper_bound |-> upper_bound, lower_bound |-> lower_bound]

\* The Day::Past { .. } literal.
DayPast(rf) ==
    [variant |-> "Past",
     wind_speed |-> MetresPerSecond(rf.midday_10m_wind_speed),
     wind_direction |-> Degrees(rf.midday_10m_wind_direction),
     wind_gust_speed |-> MetresPerSecond(rf.midday_10m_wind_gust),
     visibility |-> Metres(rf.midday_visibility),
     relative_humidity |-> Percentage(rf.midday_relative_humidity),
     pressure |-> Pascals(rf.midday_mslp),
     temperature_maximum |->
         TemperaturePrediction(Celsius(rf.day_max_screen_temperature),
                               Celsius(rf.day_upper_bound_max_temp),
                               Celsius(rf.day_lower_bound_max_temp)),
     temperature_feels_like_maximum_upper_bound |->
         Celsius(rf.day_upper_bound_max_feels_like_temp),
     temperature_feels_like_maximum_lower_bound |->
         Celsius(rf.day_lower_bound_max_feels_like_temp)]

\* The Day::Future { .. } literal once every unwrap() and the `?` have gone
\* through; conditions is the decoded day weather code.
DayFuture(rf, conditions) ==
    [variant |-> "Future",
     wind_speed |-> MetresPerSecond(rf.midday_10m_wind_speed),
     wind_direction |-> Degrees(rf.midday_10m_wind_direction),
     wind_gust_speed |-> MetresPerSecond(rf.midday_10m_wind_gust),
     visibility |-> Metres(rf.midday_visibility),
     relative_humidity |-> Percentage(rf.midday_relative_humidity),
     pressure |-> Pascals(rf.midday_mslp),
     uv_index_maximum |-> UvIndex(rf.max_uv_index[1]),
     conditions |-> conditions,
     temperature_maximum |->
         TemperaturePrediction(Celsius(rf.day_max_screen_temperature),
                               Celsius(rf.day_upper_bound_max_temp),
                               Celsius(rf.day_lower_bound_max_temp)),
     temperature_feels_like_maximum |->
         TemperaturePrediction(Celsius(rf.day_max_feels_like_temp[1]),
                               Celsius(rf.day_upper_bound_max_feels_like_temp),
                               Celsius(rf.day_lower_bound_max_feels_like_temp)),
     precipitation_probability |-> Percentage(rf.day_probability_of_precipitation[1]),
     rain_probability |-> Percentage(rf.day_probability_of_rain[1]),
     heavy_rain_probability |-> Percentage(rf.day_probability_of_heavy_rain[1]),
     snow_probability |-> Percentage(rf.day_probability_of_snow[1]),
     heavy_snow_probability |-> Percentage(rf.day_probability_of_heavy_snow[1]),
     hail_probability |-> Percentage(rf.day_probability_of_hail[1]),
     lightning_probability |-> Percentage(rf.day_probability_of_sferics[1])]

UnwrapNone == Panic("called Option::unwrap() on a None value")

\* The else branch of `let day`: the fields of the literal are evaluated in
\* the order they are written, so the first unwrap() of a None panics and an
\* unknown day code returns its error only if max_uv_index was present.
DayFutureChecked(rf) ==
    IF IsNone(rf.max_uv_index) THEN UnwrapNone
    ELSE IF IsNone(rf.day_significant_weather_code) THEN UnwrapNone
    ELSE LET conditions == ConditionsTryFrom(rf.day_significant_weather_code[1])
         IN  IF IsErr(conditions) THEN conditions
             ELSE IF \/ IsNone(rf.day_probability_of_precipitation)
                     \/ IsNone(rf.day_probability_of_rain)
                     \/ IsNone(rf.day_probability_of_heavy_rain)
                     \/ IsNone(rf.day_probability_of_snow)
                     \/ IsNone(rf.day_probability_of_heavy_snow)
                     \/ IsNone(rf.day_probability_of_hail)
                     \/ IsNone(rf.day_probability_of_sferics)
                  THEN UnwrapNone
             ELSE Ok(DayFuture(rf, conditions.val))

\* A mutant of DayOf: the variant is chosen from the presence of max_uv_index.
DayOfByUvIndex(rf) ==
    IF IsNone(rf.max_uv_index) THEN Ok(DayPast(rf)) ELSE DayFutureChecked(rf)

\* DayOf as it would be if the Past branch decoded a day code that is there.
DayOfPastDecodesCode(rf) ==
    IF IsNone(rf.day_max_feels_like_temp)
    THEN IF IsSome(rf.day_significant_weather_code)
            /\ IsErr(ConditionsTryFrom(rf.day_significant_weather_code[1]))
         THEN ConditionsTryFrom(rf.day_significant_weather_code[1])
         ELSE Ok(DayPast(rf))
    ELSE DayFutureChecked(rf)

\* `let day = if rf.day_max_feels_like_temp.is_none() { .. } else { .. }`.
DayOf(rf) ==
    IF IsNone(rf.day_max_feels_like_temp) THEN Ok(DayPast(rf)) ELSE DayFutureChecked(rf)

\* The Night literal as it would be with the bounds of the minimum
\* temperature the wrong way round.
NightBoundsSwapped(rf, conditions) ==
    [wind_speed |-> MetresPerSecond(rf.midnight_10m_wind_speed),
     wind_direction |-> Degrees(rf.midnight_10m_wind_direction),
     wind_gust_speed |-> MetresPerSecond(rf.midnight_10m_wind_gust),
     visibility |-> Metres(rf.midnight_visibility),
     relative_humidity |-> Percentage(rf.midnight_relative_humidity),
     pressure |-> Pascals(rf.midnight_mslp),
     conditions |-> conditions,
     temperature_minimum |->
         TemperaturePrediction(Celsius(rf.night_min_screen_temperature),
                               Celsius(rf.night_lower_bound_min_temp),
                               Celsius(rf.night_upper_bound_min_temp)),
     temperature_feels_like_minimum |->
         TemperaturePrediction(Celsius(rf.night_min_feels_like_temp),
                               Celsius(rf.night_upper_bound_min_feels_like_temp),
                               Celsius(rf.night_lower_bound_min_feels_like_temp)),
     precipitation_probability |-> Percentage(rf.night_probability_of_precipitation),
     rain_probability |-> Percentage(rf.night_probability_of_rain),
     heavy_rain_probability |-> Percentage(rf.night_probability_of_heavy_rain),
     snow_probability |-> Percentage(rf.night_probability_of_snow),
     heavy_snow_probability |-> Percentage(rf.night_probability_of_heavy_snow),
     hail_probability |-> Percentage(rf.night_probability_of_hail),
     lightning_probability |-> Percentage(rf.night_probability_of_sferics)]

\* The Night { .. } literal once the `?` has gone through.
Night(rf, conditions) ==
    [wind_speed |-> MetresPerSecond(rf.midnight_10m_wind_speed),
     wind_direction |-> Degrees(rf.midnight_10m_wind_direction),
     wind_gust_speed |-> MetresPerSecond(rf.midnight_10m_wind_gust),
     visibility |-> Metres(rf.midnight_visibility),
     relative_humidity |-> Percentage(rf.midnight_relative_humidity),
     pressure |-> Pascals(rf.midnight_mslp),
     conditions |-> conditions,
     temperature_minimum |->
         TemperaturePrediction(Celsius(rf.night_min_screen_temperature),
                               Celsius(rf.night_upper_bound_min_temp),
                               Celsius(rf.night_lower_bound_min_temp)),
     temperature_feels_like_minimum |->
         TemperaturePrediction(Celsius(rf.night_min_feels_like_temp),
                               Celsius(rf.night_upper_bound_min_feels_like_temp),
                               Celsius(rf.night_lower_bound_min_feels_like_temp)),
     precipitation_probability |-> Percentage(rf.night_probability_of_precipitation),
     rain_probability |-> Percentage(rf.night_probability_of_rain),
     heavy_rain_probability |-> Percentage(rf.night_probability_of_heavy_rain),
     snow_probability |-> Percentage(rf.night_probability_of_snow),
     heavy_snow_probability |-> Percentage(rf.night_probability_of_heavy_snow),
     hail_probability |-> Percentage(rf.night_probability_of_hail),
     lightning_probability |-> Percentage(rf.night_probability_of_sferics)]

\* A mutant of NightOf: an unknown night code is replaced by a default variant
\* instead of failing the record.
NightOfDefaulted(rf) ==
    LET conditions == ConditionsTryFrom(rf.night_significant_weather_code)
    IN  Ok(Night(rf, IF IsErr(conditions) THEN "ClearNight" ELSE conditions.val))

\* NightOf as it would be with the night's wind speed read from the midday
\* field.
NightOfMiddayWind(rf) ==
    LET conditions == ConditionsTryFrom(rf.night_significant_weather_code)
    IN  IF IsErr(conditions) THEN conditions
        ELSE Ok([Night(rf, conditions.val) EXCEPT
                    !.wind_speed = MetresPerSecond(rf.midday_10m_wind_speed)])

\* The night field of the returned literal.
NightOf(rf) ==
    LET conditions == ConditionsTryFrom(rf.night_significant_weather_code)
    IN  IF IsErr(conditions) THEN conditions ELSE Ok(Night(rf, conditions.val))

\* impl TryFrom<RawDailyForecast> for Daily: the day is built first, then the
\* literal Daily { time, day, night }.
DailyTryFrom(rf) ==
    LET day == DayOf(rf)
    IN  IF ~IsOk(day) THEN day
        ELSE LET night == NightOf(rf)
             IN  IF ~IsOk(night) THEN night
                 ELSE Ok([time |-> rf.time, day |-> day.val, night |-> night.val])

(***************************************************************************)
(* hourly.rs: the hourly raw-to-domain conversion.                         *)
(***************************************************************************)
\* Option::map with a newtype constructor: None stays None, Some(x) becomes
\* Some(Unit(x)).
OptionMapUnit(o, unit) == IF IsNone(o) THEN None ELSE Some([unit |-> unit, v |-> o[1]])

\* The literal Hourly { .. } once the weather code has been decoded.
HourlyOf(rf, conditions) ==
    [time |-> rf.time,
     conditions |-> conditions,
     temperature |-> Celsius(rf.screen_temperature),
     temperature_feels_like |-> Celsius(rf.feels_like_temperature),
     screen_dew_point_temperature |-> Celsius(rf.screen_dew_point_temperature),
     temperature_maximum |-> OptionMapUnit(rf.max_screen_air_temp, "Celsius"),
     temperature_minimum |-> OptionMapUnit(rf.min_screen_air_temp, "Celsius"),
     precipitation_probability |-> Percentage(rf.prob_of_precipitation),
     precipitation_rate |-> MillimetresPerHour(rf.precipitation_rate),
     precipitation_total |-> OptionMapUnit(rf.total_precip_amount, "Millimetres"),
     snow_total |-> OptionMapUnit(rf.total_snow_amount, "Millimetres"),
     wind_speed |-> MetresPerSecond(rf.wind_speed_10m),
     wind_direction |-> Degrees(rf.wind_direction_from_10m),
     wind_gust_speed |-> MetresPerSecond(rf.wind_gust_speed_10m),
     wind_gust_hourly_maximum_speed |->
         OptionMapUnit(rf.max_10m_wind_gust, "MetresPerSecond"),
     visibility |-> Metres(rf.visibility),
     relative_humidity |-> Percentage(rf.screen_relative_humidity),
     pressure |-> Pascals(rf.mslp),
     uv_index |-> UvIndex(rf.uv_index)]

\* The conversion as it would be with the hourly gust maximum unwrapped
\* instead of mapped.
HourlyTryFromGustUnwrapped(rf) ==
    LET conditions == ConditionsTryFrom(rf.significant_weather_code)
    IN  IF IsErr(conditions) THEN conditions
        ELSE IF IsNone(rf.max_10m_wind_gust)
        THEN Panic("called Option::unwrap() on a None value")
        ELSE Ok(HourlyOf(rf, conditions.val))

\* impl TryFrom<RawHourlyForecast> for Hourly: the weather code is the only
\* fallible field of the literal.
HourlyTryFrom(rf) ==
    LET conditions == ConditionsTryFrom(rf.significant_weather_code)
    IN  IF IsErr(conditions) THEN conditions
        ELSE Ok(HourlyOf(rf, conditions.val))

(***************************************************************************)
(* three_hourly.rs: the three-hourly raw-to-domain conversion.             *)
(***************************************************************************)
\* The literal ThreeHourly { .. } once the weather code has been decoded.
ThreeHourlyOf(rf, conditions) ==
    [time |-> rf.time,
     conditions |-> conditions,
     temperature_feels_like |-> Celsius(rf.feels_like_temp),
     temperature_maximum |-> Celsius(rf.max_screen_air_temp),
     temperature_minimum |-> Celsius(rf.min_screen_air_temp),
     precipitation_probability |-> Percentage(rf.prob_of_precipitation),
     precipitation_total |-> Millimetres(rf.total_precip_amount),
     snow_total |-> Millimetres(rf.total_snow_amount),
     wind_speed |-> MetresPerSecond(rf.wind_speed_10m),
     wind_direction |-> Degrees(rf.wind_direction_from_10m),
     wind_gust_speed |-> MetresPerSecond(rf.wind_gust_speed_10m),
     wind_gust_three_hourly_maximum |-> MetresPerSecond(rf.max_10m_wind_gust),
     visibility |-> Metres(rf.visibility),
     relative_humidity |-> Percentage(rf.screen_relative_humidity),
     pressure |-> Pascals(rf.mslp),
     uv_index |-> UvIndex(rf.uv_index),
     snow_probability |-> Percentage(rf.prob_of_snow),
     heavy_snow_probability |-> Percentage(rf.prob_of_heavy_snow),
     rain_probability |-> Percentage(rf.prob_of_rain),
     heavy_rain_probability |-> Percentage(rf.prob_of_heavy_rain),
     hail_probability |-> Percentage(rf.prob_of_hail),
     lightning_probability |-> Percentage(rf.prob_of_sferics)]

\* The conversion as it would be if the decoder's error were replaced by one
\* built from the code narrowed to the table's width (0..=31).
ThreeHourlyTryFromCodeMasked(rf) ==
    LET conditions == ConditionsTryFrom(rf.significant_weather_code)
    IN  IF IsErr(conditions)
        THEN Err(UnknownWeatherCondition(rf.significant_weather_code % 32))
        ELSE Ok(ThreeHourlyOf(rf, conditions.val))

\* impl TryFrom<RawThreeHourlyForecast> for ThreeHourly: every field is
\* mandatory and the weather code is the only fallible one.
ThreeHourlyTryFrom(rf) ==
    LET conditions == ConditionsTryFrom(rf.significant_weather_code)
    IN  IF IsErr(conditions) THEN conditions
        ELSE Ok(ThreeHourlyOf(rf, conditions.val))

(***************************************************************************)
(* forecast.rs: the envelope.                                              *)
(***************************************************************************)
\* The collection as it would be if each converted record were put in front
\* of the earlier ones.
RECURSIVE CollectFromReversed(_, _, _)
CollectFromReversed(results, i, acc) ==
    IF i > Len(results) THEN Ok(acc)
    ELSE IF ~IsOk(results[i]) THEN results[i]
    ELSE CollectFromReversed(results, i + 1, <<results[i].val>> \o acc)

\* Iterator::collect::<Result<Vec<_>, _>>() over the converted records: the
\* records are converted in order and the first one that is not Ok ends the
\* conversion; acc holds the values converted so far.
RECURSIVE CollectFrom(_, _, _)
CollectFrom(results, i, acc) ==
    IF i > Len(results) THEN Ok(acc)
    ELSE IF ~IsOk(results[i]) THEN results[i]
    ELSE CollectFrom(results, i + 1, Append(acc, results[i].val))

\* R::Output::try_from: the record conversion of the envelope's time period.
RecordTryFrom(period, rf) ==
    CASE period = "Hourly" -> HourlyTryFrom(rf)
      [] period = "ThreeHourly" -> ThreeHourlyTryFrom(rf)
      [] period = "Daily" -> DailyTryFrom(rf)

\* The conversion as it would be if the feature were taken from the end of
\* the collection (Vec::pop) instead of its front.
ForecastTryFromLastFeature(period, value) ==
    IF Len(value.features) = 0
    THEN Panic("called Option::unwrap() on a None value")
    ELSE LET feature == value.features[Len(value.features)]
             predictions ==
                 CollectFrom([i \in 1..Len(feature.properties.time_series) |->
                                 RecordTryFrom(period, feature.properties.time_series[i])],
                             1, <<>>)
         IN  IF ~IsOk(predictions) THEN predictions
             ELSE Ok([location_name |-> feature.properties.location.name,
                      coordinates |-> feature.geometry.coordinates,
                      requested_point_distance |->
                          Metres(feature.properties.request_point_distance),
                      predictions_made_at |-> feature.properties.model_run_date,
                      predictions |-> predictions.val])

\* The conversion as it would be if the series of every feature were
\* converted, the envelope still being the first feature's.
ForecastTryFromEveryFeature(period, value) ==
    IF Len(value.features) = 0
    THEN Panic("removal index (is 0) should be < len (is 0)")
    ELSE LET feature == value.features[1]
             converted ==
                 [j \in 1..Len(value.features) |->
                     CollectFrom(
                         [i \in 1..Len(value.features[j].properties.time_series) |->
                             RecordTryFrom(period,
                                           value.features[j].properties.time_series[i])],
                         1, <<>>)]
             failed == {j \in 1..Len(value.features) : ~IsOk(converted[j])}
         IN  IF failed # {}
             THEN converted[CHOOSE j \in failed : \A k \in failed : j <= k]
             ELSE Ok([location_name |-> feature.properties.location.name,
                      coordinates |-> feature.geometry.coordinates,
                      requested_point_distance |->
                          Metres(feature.properties.request_point_distance),
                      predictions_made_at |-> feature.properties.model_run_date,
                      predictions |-> converted[1].val])

\* impl TryFrom<RawForecast<R>> for Forecast<R::Output>, for the time period R
\* stands for.  Vec::remove(0) panics on an empty Vec.
ForecastTryFrom(period, value) ==
    IF Len(value.features) = 0
    THEN Panic("removal index (is 0) should be < len (is 0)")
    ELSE LET feature == value.features[1]
             predictions ==
                 CollectFrom([i \in 1..Len(feature.properties.time_series) |->
                                 RecordTryFrom(period, feature.properties.time_series[i])],
                             1, <<>>)
         IN  IF ~IsOk(predictions) THEN predictions
             ELSE Ok([location_name |-> feature.properties.location.name,
                      coordinates |-> feature.geometry.coordinates,
                      requested_point_distance |->
                          Metres(feature.properties.request_point_distance),
                      predictions_made_at |-> feature.properties.model_run_date,
                      predictions |-> predictions.val])

\* The series places whose conversion Forecast::try_from runs: collect stops
\* at the first record that does not convert and never touches a later one.
RECURSIVE AttemptedFrom(_, _, _)
AttemptedFrom(results, i, acc) ==
    IF i > Len(results) THEN acc
    ELSE IF ~IsOk(results[i]) THEN Append(acc, i)
    ELSE AttemptedFrom(results, i + 1, Append(acc, i))

ForecastAttempts(period, value) ==
    IF Len(value.features) = 0 THEN <<>>
    ELSE LET series == value.features[1].properties.time_series
         IN  AttemptedFrom([i \in 1..Len(series) |-> RecordTryFrom(period, series[i])],
                           1, <<>>)

(***************************************************************************)
(* forecast.rs: request URLs.  A string that is computed is the sequence   *)
(* of its characters; a URL is its scheme, host, path segments and query   *)
(* pairs.                                                                  *)
(***************************************************************************)
\* A value returned by a function that has no error to return.
Returned(v) == [tag |-> "Returned", val |-> v]

DigitChars == <<"0", "1", "2", "3", "4", "5", "6", "7", "8", "9">>

\* The decimal digits of a natural number, without leading zeros.
RECURSIVE NatToChars(_)
NatToChars(n) ==
    IF n < 10 THEN <<DigitChars[n + 1]>>
    ELSE NatToChars(n \div 10) \o <<DigitChars[(n % 10) + 1]>>

\* The last width decimal digits of n, leading zeros kept.
RECURSIVE FixedDigits(_, _)
FixedDigits(n, width) ==
    IF width = 0 THEN <<>>
    ELSE FixedDigits(n \div 10, width - 1) \o <<DigitChars[(n % 10) + 1]>>

RECURSIVE StripTrailingZeros(_)
StripTrailingZeros(chars) ==
    IF Len(chars) > 0 /\ chars[Len(chars)] = "0"
    THEN StripTrailingZeros(SubSeq(chars, 1, Len(chars) - 1))
    ELSE chars

RECURSIVE Pow5(_)
Pow5(n) == IF n = 0 THEN 1 ELSE 5 * Pow5(n - 1)

\* f64::to_string (Display): the sign, the integer digits and, when the value
\* is not whole, a point and the fraction's digits; no exponent, no plus sign,
\* no trailing ".0".  A fraction of f steps of 2^-FracBits is f * 5^FracBits
\* over 10^FracBits.
FloatToString(x) ==
    CASE x.k = "nan" -> <<"N", "a", "N">>
      [] x.k = "inf" -> (IF x.s < 0 THEN <<"-">> ELSE <<>>) \o <<"i", "n", "f">>
      [] OTHER ->
            (IF x.s < 0 THEN <<"-">> ELSE <<>>)
            \o NatToChars(x.m \div Unit)
            \o (IF x.m % Unit = 0 THEN <<>>
                ELSE <<".">> \o StripTrailingZeros(
                                    FixedDigits((x.m % Unit) * Pow5(FracBits), FracBits)))

(***************************************************************************)
(* units.rs: the text of a Latitude and of a Longitude, as the sequence of *)
(* its characters.                                                         *)
(***************************************************************************)
\* f64::is_sign_positive: the sign bit is clear (true of 0.0, false of -0.0).
IsSignPositive(x) == x.s > 0

\* f64::abs: the sign bit cleared.
Abs(x) == [x EXCEPT !.s = 1]

\* The character U+00B0.
DegreeSign == "DEGREE SIGN"

\* The precision of the format "{d:.3}".
DisplayPrecision == 3

\* "{d:.3}" of a float that is not negative: the integer digits, a point and
\* three fraction digits, the exact value rounded to the nearest thousandth
\* with ties to even.
FormatFixed3(d) ==
    CASE d.k = "nan" -> <<"N", "a", "N">>
      [] d.k = "inf" -> <<"i", "n", "f">>
      [] OTHER ->
            LET scale == Pow5(DisplayPrecision) * Pow2(DisplayPrecision)
                q == (d.m * scale) \div Unit
                r == (d.m * scale) % Unit
                up == (2 * r > Unit) \/ (2 * r = Unit /\ q % 2 = 1)
                thousandths == IF up THEN q + 1 ELSE q
            IN  NatToChars(thousandths \div scale)
                \o <<".">> \o FixedDigits(thousandths % scale, DisplayPrecision)

\* impl Display for Latitude.
LatitudeDisplay(lat) ==
    LET c == IF IsSignPositive(lat.deg) THEN "N" ELSE "S"
        d == Abs(lat.deg)
    IN  FormatFixed3(d) \o <<DegreeSign, " ", c>>

\* impl Display for Longitude.
LongitudeDisplay(lon) ==
    LET c == IF IsSignPositive(lon.deg) THEN "W" ELSE "E"
        d == Abs(lon.deg)
    IN  FormatFixed3(d) \o <<DegreeSign, " ", c>>

(***************************************************************************)
(* forecast.rs: request URLs, the query.                                   *)
(***************************************************************************)
\* The bytes application/x-www-form-urlencoded leaves as they are.
UrlSafeChars ==
    {DigitChars[i] : i \in 1..10}
    \cup {"a", "b", "c", "d", "e", "f", "g", "h", "i", "j", "k", "l", "m",
          "n", "o", "p", "q", "r", "s", "t", "u", "v", "w", "x", "y", "z"}
    \cup {"A", "B", "C", "D", "E", "F", "G", "H", "I", "J", "K", "L", "M",
          "N", "O", "P", "Q", "R", "S", "T", "U", "V", "W", "X", "Y", "Z"}
    \cup {"*", "-", ".", "_"}

\* form_urlencoded::byte_serialize: a space becomes +, any other byte outside
\* the safe set is percent-encoded.
RECURSIVE UrlEncode(_)
UrlEncode(chars) ==
    IF Len(chars) = 0 THEN <<>>
    ELSE (IF chars[1] \in UrlSafeChars THEN <<chars[1]>>
          ELSE IF chars[1] = " " THEN <<"+">>
          ELSE <<"%", chars[1]>>)
         \o UrlEncode(Tail(chars))

\* The three endpoints.
HOURLY_URL ==
    [scheme |-> "https", host |-> "data.hub.api.metoffice.gov.uk",
     path |-> <<"sitespecific", "v0", "point", "hourly">>]

THREE_HOURLY_URL ==
    [scheme |-> "https", host |-> "data.hub.api.metoffice.gov.uk",
     path |-> <<"sitespecific", "v0", "point", "three-hourly">>]

DAILY_URL ==
    [scheme |-> "https", host |-> "data.hub.api.metoffice.gov.uk",
     path |-> <<"sitespecific", "v0", "point", "daily">>]

SOURCE_PARAM == <<"source", <<"B", "D", "1">>>>

METADATA_PARAM == <<"excludeParameterMetadata", <<"t", "r", "u", "e">>>>

LOCATION_NAME_PARAM == <<"includeLocationName", <<"t", "r", "u", "e">>>>

\* Url::parse_with_params: the input must be an absolute URL; each pair is
\* appended to the query, in order, its value form-urlencoded.
UrlParseWithParams(url, params) ==
    IF url.scheme = "" \/ url.host = "" THEN Err("relative URL without a base")
    ELSE Ok([scheme |-> url.scheme, host |-> url.host, path |-> url.path,
             query |-> [i \in 1..Len(params) |->
                           <<params[i][1], UrlEncode(params[i][2])>>]])

\* url_with_params as it would be with the two degrees handed to each
\* other's parameter.
UrlWithParamsSwapped(url, latitude, longitude) ==
    LET parsed == UrlParseWithParams(url,
                      <<<<"latitude", FloatToString(LongitudeAsFloat(longitude))>>,
                        <<"longitude", FloatToString(LatitudeAsFloat(latitude))>>,
                        SOURCE_PARAM, METADATA_PARAM, LOCATION_NAME_PARAM>>)
    IN  IF IsErr(parsed) THEN Panic("Bug in URL construction.")
        ELSE Returned(parsed.val)

\* Forecast::url_with_params; expect() panics where the parse fails.
UrlWithParams(url, latitude, longitude) ==
    LET parsed == UrlParseWithParams(url,
                      <<<<"latitude", FloatToString(LatitudeAsFloat(latitude))>>,
                        <<"longitude", FloatToString(LongitudeAsFloat(longitude))>>,
                        SOURCE_PARAM, METADATA_PARAM, LOCATION_NAME_PARAM>>)
    IN  IF IsErr(parsed) THEN Panic("Bug in URL construction.")
        ELSE Returned(parsed.val)

\* Forecast::<Hourly / ThreeHourly / Daily>::url_for_location.
UrlForLocation(period, latitude, longitude) ==
    CASE period = "Hourly" -> UrlWithParams(HOURLY_URL, latitude, longitude)
      [] period = "ThreeHourly" -> UrlWithParams(THREE_HOURLY_URL, latitude, longitude)
      [] period = "Daily" -> UrlWithParams(DAILY_URL, latitude, longitude)

(***************************************************************************)
(* parse.rs: deserialization of the provider's JSON document.  A document  *)
(* is the parsed JSON tree; a timestamp string is its fields.              *)
(***************************************************************************)
\* jiff::Zoned: an instant (whole minutes and the seconds within the minute,
\* counted from the epoch) and the time zone it is shown in.
ZonedAt(tz, seconds) == [tz |-> tz, minutes |-> seconds \div 60, second |-> seconds % 60]

\* The offset from UTC, in minutes, of the zones the model knows.
TimeZoneOffset(tz) == IF tz = "UTC" THEN 0 ELSE 60

\* The civil (wall clock) reading of a Zoned in its own zone.
CivilMinutes(z) == z.minutes + TimeZoneOffset(z.tz)

CivilDate(z) == CivilMinutes(z) \div 1440

CivilHour(z) == (CivilMinutes(z) % 1440) \div 60

CivilMinute(z) == CivilMinutes(z) % 60

\* The text of a timestamp: form "iso" is date T hour:minute[:second][offset],
\* with second and offset (minutes east of UTC; Z is 0) optional; any other
\* form is not a timestamp at all.
TimestampText(date, hour, minute, second, offset) ==
    [form |-> "iso", date |-> date, hour |-> hour, minute |-> minute,
     second |-> second, offset |-> offset]

NotATimestamp == [form |-> "other"]

\* jiff::Timestamp::from_str: an instant needs an offset; omitted seconds
\* are zero.  The result is the instant in seconds from the epoch.
TimestampFromStr(s) ==
    IF s.form # "iso" \/ IsNone(s.offset) THEN Err("failed to parse timestamp")
    ELSE Ok(((s.date * 1440 + s.hour * 60 + s.minute) - s.offset[1]) * 60
            + (IF IsNone(s.second) THEN 0 ELSE s.second[1]))

\* utc_minutes as it would be with the instant shown in the system's zone.
UtcMinutesSystemZone(s) ==
    LET ts == TimestampFromStr(s)
    IN  IF IsErr(ts) THEN Err("Failed to parse datetime.")
        ELSE Ok(ZonedAt("system", ts.val))

\* utc_minutes: the string is parsed as a Timestamp and zoned to UTC; a
\* failure becomes the deserializer's custom error.
UtcMinutes(s) ==
    LET ts == TimestampFromStr(s)
    IN  IF IsErr(ts) THEN Err("Failed to parse datetime.")
        ELSE Ok(ZonedAt("UTC", ts.val))

\* RawHourlyForecast: the keys serde requires, and the Option<f32> keys a
\* document may leave out.  (The JSON names are these in camelCase.)
HourlyMandatoryKeys ==
    {"time", "screen_temperature", "screen_dew_point_temperature",
     "feels_like_temperature", "wind_speed_10m", "wind_direction_from_10m",
     "wind_gust_speed_10m", "visibility", "screen_relative_humidity", "mslp",
     "uv_index", "significant_weather_code", "precipitation_rate",
     "prob_of_precipitation"}

HourlyOptionalKeys ==
    {"max_screen_air_temp", "min_screen_air_temp", "max_10m_wind_gust",
     "total_precip_amount", "total_snow_amount"}

\* An Option<f32> field: absent is None, a number is narrowed to f32.
DeserializeOptionF32(rdoc, key) ==
    IF key \in DOMAIN rdoc THEN Some(AsF32(rdoc[key])) ELSE None

\* #[derive(Deserialize)] for RawHourlyForecast.  The time is parsed when its
\* key is met, integers must fit their type, and a mandatory key that never
\* came is reported at the end of the object.  Of the fields, time is the
\* parsed instant, mslp, uv_index and significant_weather_code are integers
\* kept as read, and every other one is an f32 or an Option<f32>.
DeserializeHourly(rdoc) ==
    IF "time" \in DOMAIN rdoc /\ IsErr(UtcMinutes(rdoc.time))
    THEN Err(UtcMinutes(rdoc.time).err)
    ELSE IF "uv_index" \in DOMAIN rdoc /\ rdoc.uv_index \notin 0..255
    THEN Err("invalid value: expected u8")
    ELSE IF "significant_weather_code" \in DOMAIN rdoc
            /\ rdoc.significant_weather_code \notin I8
    THEN Err("invalid value: expected i8")
    ELSE IF "mslp" \in DOMAIN rdoc /\ rdoc.mslp < 0
    THEN Err("invalid value: expected u32")
    ELSE IF ~(HourlyMandatoryKeys \subseteq DOMAIN rdoc)
    THEN Err("missing field")
    ELSE Ok([k \in HourlyMandatoryKeys \cup HourlyOptionalKeys |->
                CASE k = "time" -> UtcMinutes(rdoc.time).val
                  [] k \in HourlyOptionalKeys -> DeserializeOptionF32(rdoc, k)
                  [] k \in {"mslp", "uv_index", "significant_weather_code"} -> rdoc[k]
                  [] OTHER -> AsF32(rdoc[k])])

\* R: Deserialize, for the raw record type of the period.
DeserializeRecord(period, rdoc) ==
    CASE period = "Hourly" -> DeserializeHourly(rdoc)

\* Vec<T>: Deserialize.  The elements are read in order and the first one
\* that fails ends the read with its error.
DeserializeVec(results) == CollectFrom(results, 1, <<>>)

\* #[derive(Deserialize)] for Properties (and the location it holds).
DeserializeProperties(period, pdoc) ==
    LET date == UtcMinutes(pdoc.modelRunDate)
        series == DeserializeVec([i \in 1..Len(pdoc.timeSeries) |->
                                     DeserializeRecord(period, pdoc.timeSeries[i])])
    IN  IF IsErr(date) THEN date
        ELSE IF IsErr(series) THEN series
        ELSE Ok([location |-> [name |-> pdoc.location.name],
                 request_point_distance |-> AsF32(pdoc.requestPointDistance),
                 model_run_date |-> date.val,
                 time_series |-> series.val])

\* #[derive(Deserialize)] for RawFeature and Geometry; the coordinates go
\* through Coordinates' own deserialization.
DeserializeFeature(period, fdoc) ==
    IF ~({"geometry", "properties"} \subseteq DOMAIN fdoc) THEN Err("missing field")
    ELSE LET coordinates == DeserializeCoordinates(fdoc.geometry.coordinates)
             properties == DeserializeProperties(period, fdoc.properties)
         IN  IF IsErr(coordinates) THEN Err(coordinates.err.inner)
             ELSE IF IsErr(properties) THEN properties
             ELSE Ok([geometry |-> [coordinates |-> coordinates.val],
                      properties |-> properties.val])

\* serde_json::from_str::<RawForecast<R>>: text that is not JSON, or JSON of
\* another shape, is the library's error; otherwise the raw envelope.
FromStr(period, s) ==
    IF s.syntax # "json" THEN Err("expected value")
    ELSE IF "features" \notin DOMAIN s THEN Err("missing field")
    ELSE LET features == DeserializeVec([i \in 1..Len(s.features) |->
                                            DeserializeFeature(period, s.features[i])])
         IN  IF IsErr(features) THEN features
             ELSE Ok([features |-> features.val])

\* serde_json::from_slice: the bytes must also be text.
FromSlice(period, bytes) ==
    IF ~bytes.utf8 THEN Err("invalid unicode code point")
    ELSE FromStr(period, bytes.text)

\* try_from_str as it would be if the coordinates' failure were turned back
\* into the typed bounds error.
TryFromStrTypedBounds(period, s) ==
    LET raw == FromStr(period, s)
    IN  IF IsErr(raw)
        THEN IF raw.err = "invalid geographic degrees"
             THEN Err(GeographicDegreesOutOfBounds)
             ELSE Err(Serde(raw.err))
        ELSE ForecastTryFrom(period, raw.val)

\* try_from_str as it would be with map_err written after and_then, so that
\* the conversion's own error is wrapped as well (by its Display text).
TryFromStrMapErrLast(period, s) ==
    LET raw == FromStr(period, s)
        converted == IF IsErr(raw) THEN raw ELSE ForecastTryFrom(period, raw.val)
    IN  IF IsErr(raw) THEN Err(Serde(raw.err))
        ELSE IF IsErr(converted) THEN Err(Serde("unknown significant weather code"))
        ELSE converted

\* Forecast::try_from_str: from_str, map_err(Error::Serde), and_then(try_from).
TryFromStr(period, s) ==
    LET raw == FromStr(period, s)
    IN  IF IsErr(raw) THEN Err(Serde(raw.err))
        ELSE ForecastTryFrom(period, raw.val)

\* try_from_bytes as it would be with the library's error looked into and
\* the coordinates' failure handed on as the typed bounds error.
TryFromBytesBoundsUnwrapped(period, bytes) ==
    LET raw == FromSlice(period, bytes)
    IN  IF IsErr(raw)
        THEN IF raw.err = "invalid geographic degrees"
             THEN Err(GeographicDegreesOutOfBounds)
             ELSE Err(Serde(raw.err))
        ELSE ForecastTryFrom(period, raw.val)

\* Forecast::try_from_bytes: the same over from_slice.
TryFromBytes(period, bytes) ==
    LET raw == FromSlice(period, bytes)
    IN  IF IsErr(raw) THEN Err(Serde(raw.err))
        ELSE ForecastTryFrom(period, raw.val)

\* and_then runs Forecast::try_from, and with it the record conversions, only
\* on a document that deserialized.
ParseAttempts(period, raw) ==
    IF IsErr(raw) THEN <<>> ELSE ForecastAttempts(period, raw.val)

(***************************************************************************)
(* Sample inputs.                                                          *)
(***************************************************************************)
\* Floats around every endpoint of the two ranges: the endpoint itself and one
\* grid step outside it, a value strictly inside, negative zero, and the
\* non-finite floats.
DegreeSamples ==
    {Grid(1), NegZero, NaN, PosInf, NegInf}
    \cup UNION {{Lit(l), Lit(-l), Grid(l * Unit + 1), Grid(-(l * Unit) - 1)} :
                l \in {LatitudeLimit, LongitudeLimit}}

\* Altitudes: f32-representable ones, two that `as f32` rounds (a tie rounded
\* down to even and a tie rounded up to even), and NaN.
AltitudeSamples ==
    {Lit(27), Grid(Pow2(F32MantissaBits) + 1),
     Grid(-(Pow2(F32MantissaBits) + 3)), NaN}

TripleSamples == DegreeSamples \X DegreeSamples \X AltitudeSamples

\* JSON numbers are finite.
JsonTripleSamples == {t \in TripleSamples : \A i \in 1..3 : IsFinite(t[i])}

NoCall == [op |-> "none"]

NoLatitude == [type |-> "none"]

NoLongitude == [type |-> "none"]

\* jiff::Zoned: a whole minute, shown in UTC.
Zoned(minutes) == ZonedAt("UTC", minutes * 60)

Opt(present, x) == IF present THEN Some(x) ELSE None

DayProbabilityFields ==
    {"day_probability_of_precipitation", "day_probability_of_rain",
     "day_probability_of_heavy_rain", "day_probability_of_snow",
     "day_probability_of_heavy_snow", "day_probability_of_hail",
     "day_probability_of_sferics"}

\* A raw daily record valid at minute t.  Every numeric field has a value of
\* its own (base plus the field's place), so that a field wired to the wrong
\* raw field shows.  fl, uv and dcode are the three optional day fields as
\* Options, ncode the night code, absent the day probabilities left out.
RawDailySample(t, base, fl, uv, dcode, ncode, absent) ==
    [time |-> Zoned(t),
     midday_10m_wind_speed |-> Lit(base + 1),
     midday_10m_wind_direction |-> Lit(base + 2),
     midday_10m_wind_gust |-> Lit(base + 3),
     midday_visibility |-> Lit(base + 4),
     midday_relative_humidity |-> Lit(base + 5),
     midday_mslp |-> base + 6,
     day_max_screen_temperature |-> Lit(base + 7),
     day_upper_bound_max_temp |-> Lit(base + 8),
     day_lower_bound_max_temp |-> Lit(base + 9),
     day_upper_bound_max_feels_like_temp |-> Lit(base + 10),
     day_lower_bound_max_feels_like_temp |-> Lit(base + 11),
     day_max_feels_like_temp |-> fl,
     max_uv_index |-> uv,
     day_significant_weather_code |-> dcode,
     day_probability_of_precipitation |->
         Opt("day_probability_of_precipitation" \notin absent, Lit(base + 14)),
     day_probability_of_rain |->
         Opt("day_probability_of_rain" \notin absent, Lit(base + 15)),
     day_probability_of_heavy_rain |->
         Opt("day_probability_of_heavy_rain" \notin absent, Lit(base + 16)),
     day_probability_of_snow |->
         Opt("day_probability_of_snow" \notin absent, Lit(base + 17)),
     day_probability_of_heavy_snow |->
         Opt("day_probability_of_heavy_snow" \notin absent, Lit(base + 18)),
     day_probability_of_hail |->
         Opt("day_probability_of_hail" \notin absent, Lit(base + 19)),
     day_probability_of_sferics |->
         Opt("day_probability_of_sferics" \notin absent, Lit(base + 20)),
     midnight_10m_wind_speed |-> Lit(base + 21),
     midnight_10m_wind_direction |-> Lit(base + 22),
     midnight_10m_wind_gust |-> Lit(base + 23),
     midnight_visibility |-> Lit(base + 24),
     midnight_relative_humidity |-> Lit(base + 25),
     midnight_mslp |-> base + 26,
     night_significant_weather_code |-> ncode,
     night_min_screen_temperature |-> Lit(base + 27),
     night_upper_bound_min_temp |-> Lit(base + 28),
     night_lower_bound_min_temp |-> Lit(base + 29),
     night_min_feels_like_temp |-> Lit(base + 30),
     night_upper_bound_min_feels_like_temp |-> Lit(base + 31),
     night_lower_bound_min_feels_like_temp |-> Lit(base + 32),
     night_probability_of_precipitation |-> Lit(base + 33),
     night_probability_of_rain |-> Lit(base + 34),
     night_probability_of_heavy_rain |-> Lit(base + 35),
     night_probability_of_snow |-> Lit(base + 36),
     night_probability_of_heavy_snow |-> Lit(base + 37),
     night_probability_of_hail |-> Lit(base + 38),
     night_probability_of_sferics |-> Lit(base + 39)]

\* Weather codes: known ones (a day/night sibling pair, the two ends of the
\* table) and unknown ones (4, one past each end of the table).
CodeSamples == {-2, -1, 2, 3, 4, 30, 31}

\* Which day probabilities a record leaves out: none, any single one, or all.
AbsentSamples == {{}, DayProbabilityFields} \cup {{f} : f \in DayProbabilityFields}

\* Raw daily records for a direct Daily::try_from: every combination of the
\* optional fields being present or absent, with known and unknown codes.
DailyRecordSamples ==
    {RawDailySample(0, base, fl, uv, dcode, ncode, absent) :
        base \in {0, 40},
        fl \in {None, Some(Lit(12))},
        uv \in {None, Some(13)},
        dcode \in {None} \cup {Some(c) : c \in CodeSamples},
        ncode \in CodeSamples,
        absent \in AbsentSamples}

\* Raw daily records for the series of an envelope, each valid at a time of its
\* own: complete Past and Future records, records with an unknown day code, an
\* unknown night code or both, and a Future record without max_uv_index.
SeriesRecordSamples ==
    {RawDailySample(10, 0, None, None, None, 2, DayProbabilityFields),
     RawDailySample(20, 0, None, Some(13), Some(4), 30, {}),
     RawDailySample(30, 0, None, None, None, 31, DayProbabilityFields),
     RawDailySample(40, 40, Some(Lit(12)), Some(13), Some(3), 2, {}),
     RawDailySample(50, 40, Some(Lit(12)), Some(13), Some(-2), 2, {}),
     RawDailySample(60, 40, Some(Lit(12)), Some(13), Some(3), 4, {}),
     RawDailySample(70, 40, Some(Lit(12)), Some(13), Some(31), -2, {}),
     RawDailySample(80, 40, Some(Lit(12)), None, Some(3), 2, {})}

MaxSeries == 3

SeriesSamples == UNION {[1..n -> SeriesRecordSamples] : n \in 0..MaxSeries}

\* A raw envelope with one feature holding the series.
RawForecastSample(series) ==
    [features |->
        <<[geometry |->
               [coordinates |->
                    Coordinates(Latitude(Grid(101)), Longitude(Grid(-7)), Metres(Lit(27)))],
           properties |->
               [location |-> [name |-> "Exeter"],
                request_point_distance |-> Grid(55),
                model_run_date |-> Zoned(600),
                time_series |-> series]]>>]

\* The three time periods (the types implementing TimePeriod).
Periods == {"Hourly", "ThreeHourly", "Daily"}

\* Numbers for the fields of a record: two plain runs in which every field has
\* a value of its own, a run of numbers too wide for an f32, and a run of
\* values no forecast should hold (NaN, an infinity, negative values,
\* negative zero).
FieldValue(run, k) ==
    CASE run = "low" -> Lit(k)
      [] run = "high" -> Lit(40 + k)
      [] run = "wide" -> Grid(Pow2(F32MantissaBits) + 2 * k + 1)
      [] run = "odd" -> CASE k % 4 = 0 -> NaN
                          [] k % 4 = 1 -> NegInf
                          [] k % 4 = 2 -> Grid(-k)
                          [] OTHER -> NegZero

RunSamples == {"low", "high", "odd"}

\* A raw hourly record valid at minute t; absent names the optional fields
\* the provider left out.
RawHourlySample(t, run, code, absent) ==
    [time |-> Zoned(t),
     screen_temperature |-> FieldValue(run, 1),
     max_screen_air_temp |-> Opt("max_screen_air_temp" \notin absent, FieldValue(run, 2)),
     min_screen_air_temp |-> Opt("min_screen_air_temp" \notin absent, FieldValue(run, 3)),
     screen_dew_point_temperature |-> FieldValue(run, 4),
     feels_like_temperature |-> FieldValue(run, 5),
     wind_speed_10m |-> FieldValue(run, 6),
     wind_direction_from_10m |-> FieldValue(run, 7),
     wind_gust_speed_10m |-> FieldValue(run, 8),
     max_10m_wind_gust |-> Opt("max_10m_wind_gust" \notin absent, FieldValue(run, 9)),
     visibility |-> FieldValue(run, 10),
     screen_relative_humidity |-> FieldValue(run, 11),
     mslp |-> 101300,
     uv_index |-> 13,
     significant_weather_code |-> code,
     precipitation_rate |-> FieldValue(run, 12),
     total_precip_amount |-> Opt("total_precip_amount" \notin absent, FieldValue(run, 13)),
     total_snow_amount |-> Opt("total_snow_amount" \notin absent, FieldValue(run, 14)),
     prob_of_precipitation |-> FieldValue(run, 15)]

\* Raw hourly records for a direct Hourly::try_from: every subset of the five
\* optional fields absent, known and unknown codes, plain and odd numbers.
HourlyRecordSamples ==
    {RawHourlySample(0, run, code, absent) :
        run \in RunSamples, code \in CodeSamples, absent \in SUBSET HourlyOptionalKeys}

\* A raw three-hourly record valid at minute t.
RawThreeHourlySample(t, run, code) ==
    [time |-> Zoned(t),
     significant_weather_code |-> code,
     feels_like_temp |-> FieldValue(run, 1),
     max_screen_air_temp |-> FieldValue(run, 2),
     min_screen_air_temp |-> FieldValue(run, 3),
     prob_of_precipitation |-> FieldValue(run, 4),
     total_precip_amount |-> FieldValue(run, 5),
     total_snow_amount |-> FieldValue(run, 6),
     wind_speed_10m |-> FieldValue(run, 7),
     wind_direction_from_10m |-> FieldValue(run, 8),
     wind_gust_speed_10m |-> FieldValue(run, 9),
     max_10m_wind_gust |-> FieldValue(run, 10),
     visibility |-> FieldValue(run, 11),
     screen_relative_humidity |-> FieldValue(run, 12),
     mslp |-> 101300,
     uv_index |-> 13,
     prob_of_snow |-> FieldValue(run, 13),
     prob_of_heavy_snow |-> FieldValue(run, 14),
     prob_of_rain |-> FieldValue(run, 15),
     prob_of_heavy_rain |-> FieldValue(run, 16),
     prob_of_hail |-> FieldValue(run, 17),
     prob_of_sferics |-> FieldValue(run, 18)]

\* Raw three-hourly records for a direct ThreeHourly::try_from: every i8 code
\* around the table's ends and beyond, plain and odd numbers.
ThreeHourlyRecordSamples ==
    {RawThreeHourlySample(0, run, code) :
        run \in RunSamples,
        code \in CodeSamples \cup {I8Min, -3, 0, 1, 29, 32, 36, I8Max}}

\* The records an envelope's series is drawn from, per period.  Their times
\* are not in the order the records are listed in a series: a conversion that
\* sorted by time would show.
PeriodRecordSamples(period) ==
    CASE period = "Hourly" ->
            {RawHourlySample(30, "low", 2, {}),
             RawHourlySample(10, "high", 3, HourlyOptionalKeys),
             RawHourlySample(20, "low", 4, {}),
             RawHourlySample(40, "odd", 31, {"total_snow_amount"})}
      [] period = "ThreeHourly" ->
            {RawThreeHourlySample(30, "low", 2),
             RawThreeHourlySample(10, "high", 3),
             RawThreeHourlySample(20, "odd", -2),
             RawThreeHourlySample(40, "low", 4)}
      [] period = "Daily" -> SeriesRecordSamples

PeriodSeriesSamples(period) ==
    UNION {[1..n -> PeriodRecordSamples(period)] : n \in 0..MaxSeries}

\* A feature that could follow the first one in the provider's collection.
OtherFeatureSample ==
    [geometry |->
         [coordinates |->
              Coordinates(Latitude(Grid(-13)), Longitude(Grid(9)), Metres(Lit(3)))],
     properties |->
         [location |-> [name |-> "Truro"],
          request_point_distance |-> Grid(8),
          model_run_date |-> Zoned(660),
          time_series |-> <<>>]]

\* Another such feature, whose series holds one record with the unknown
\* weather code 4.
LaterFeatureSample(period) ==
    [OtherFeatureSample EXCEPT
        !.properties.time_series =
            <<CASE period = "Hourly" -> RawHourlySample(20, "low", 4, {})
                [] period = "ThreeHourly" -> RawThreeHourlySample(40, "low", 4)
                [] period = "Daily" ->
                      RawDailySample(60, 40, Some(Lit(12)), Some(13), Some(3), 4, {})>>]

\* Raw envelopes of a period: no feature at all, one feature holding a series,
\* two features of which the first holds the series, and the same followed by
\* a feature whose own series does not convert.
EnvelopeSamples(period) ==
    {[features |-> <<>>]}
    \cup {RawForecastSample(series) : series \in PeriodSeriesSamples(period)}
    \cup {[features |-> RawForecastSample(series).features \o <<OtherFeatureSample>>] :
            series \in {s \in PeriodSeriesSamples(period) : Len(s) <= 1}}
    \cup {[features |-> RawForecastSample(series).features
                            \o <<OtherFeatureSample, LaterFeatureSample(period)>>] :
            series \in {s \in PeriodSeriesSamples(period) : Len(s) <= 1}}

\* Timestamp strings: minute precision with Z (the provider's form), with
\* seconds, with an offset east of UTC that moves the date, without any
\* offset, and text that is no timestamp.
TimestampSamples ==
    {TimestampText(2, 10, 0, None, Some(0)),
     TimestampText(2, 23, 59, None, Some(0)),
     TimestampText(2, 10, 0, Some(30), Some(0)),
     TimestampText(2, 0, 30, None, Some(60)),
     TimestampText(2, 10, 0, None, None),
     NotATimestamp}

\* The JSON object of an hourly record: every key of RawHourlyForecast with a
\* number, then the keys in dropped left out.
HourlyDocFull(time, run, code, uv) ==
    [time |-> time,
     screen_temperature |-> FieldValue(run, 1),
     max_screen_air_temp |-> FieldValue(run, 2),
     min_screen_air_temp |-> FieldValue(run, 3),
     screen_dew_point_temperature |-> FieldValue(run, 4),
     feels_like_temperature |-> FieldValue(run, 5),
     wind_speed_10m |-> FieldValue(run, 6),
     wind_direction_from_10m |-> FieldValue(run, 7),
     wind_gust_speed_10m |-> FieldValue(run, 8),
     max_10m_wind_gust |-> FieldValue(run, 9),
     visibility |-> FieldValue(run, 10),
     screen_relative_humidity |-> FieldValue(run, 11),
     mslp |-> 101300,
     uv_index |-> uv,
     significant_weather_code |-> code,
     precipitation_rate |-> FieldValue(run, 12),
     total_precip_amount |-> FieldValue(run, 13),
     total_snow_amount |-> FieldValue(run, 14),
     prob_of_precipitation |-> FieldValue(run, 15)]

HourlyDocSample(time, run, code, uv, dropped) ==
    LET full == HourlyDocFull(time, run, code, uv)
    IN  [k \in (DOMAIN full) \ dropped |-> full[k]]

\* Hourly record objects: a complete one, one without the five optional keys,
\* one with an unknown code, and three that do not deserialize (a mandatory
\* key missing, a UV index that is no u8, a time that is no timestamp).
HourlyDocSamples ==
    {HourlyDocSample(TimestampText(2, 11, 0, None, Some(0)), "low", 2, 13, {}),
     HourlyDocSample(TimestampText(2, 9, 0, None, Some(0)), "wide", 3, 0,
                     HourlyOptionalKeys),
     HourlyDocSample(TimestampText(2, 10, 0, None, Some(0)), "high", 4, 13, {}),
     HourlyDocSample(TimestampText(2, 12, 0, None, Some(0)), "low", 2, 13,
                     {"visibility"}),
     HourlyDocSample(TimestampText(2, 13, 0, None, Some(0)), "low", 2, 256, {}),
     HourlyDocSample(NotATimestamp, "low", 2, 13, {})}

HourlyDocSeriesSamples ==
    UNION {[1..n -> HourlyDocSamples] : n \in 0..MaxSeries}

\* The place of a feature, as its geometry.coordinates array and its
\* requestPointDistance: the test's shape, an altitude and a distance too wide
\* for an f32, a longitude one step out of range, and a latitude one step out
\* of range the other way.
DocPlaceSamples ==
    {<<<<Grid(-7), Grid(101), Lit(27)>>, Grid(55)>>,
     <<<<Lit(180), Lit(-90), Grid(Pow2(F32MantissaBits) + 1)>>,
       Grid(Pow2(F32MantissaBits) + 3)>>,
     <<<<Grid(LongitudeLimit * Unit + 1), Grid(101), Lit(27)>>, Grid(55)>>,
     <<<<Grid(-7), Grid(-(LatitudeLimit * Unit) - 1), Lit(27)>>, Grid(55)>>}

\* A feature object of the provider's document.
FeatureDoc(place, name, date, series) ==
    [geometry |-> [coordinates |-> place[1]],
     properties |->
         [location |-> [name |-> name],
          requestPointDistance |-> place[2],
          modelRunDate |-> date,
          timeSeries |-> series]]

\* Documents: text that is not JSON, JSON without the features key, an empty
\* feature collection, a feature without its properties, one feature (every
\* series under the provider's form of date, every date over short series),
\* and two features of which the second is another place.
DocSamples ==
    {[syntax |-> "text"], [syntax |-> "json"], [syntax |-> "json", features |-> <<>>],
     [syntax |-> "json",
      features |-> <<[geometry |-> [coordinates |-> <<Grid(-7), Grid(101), Lit(27)>>]]>>]}
    \cup {[syntax |-> "json",
           features |-> <<FeatureDoc(place, "Exeter",
                                     TimestampText(2, 10, 0, None, Some(0)), series)>>] :
            place \in DocPlaceSamples, series \in HourlyDocSeriesSamples}
    \cup {[syntax |-> "json",
           features |-> <<FeatureDoc(place, "Exeter", date, series)>>] :
            place \in DocPlaceSamples, date \in TimestampSamples,
            series \in {s \in HourlyDocSeriesSamples : Len(s) <= 1}}
    \cup {[syntax |-> "json",
           features |-> <<FeatureDoc(place, "Exeter", date, <<>>),
                          FeatureDoc(<<<<Grid(9), Grid(-13), Lit(3)>>, Grid(8)>>, "Truro",
                                     TimestampText(3, 11, 0, None, Some(0)), <<>>)>>] :
            place \in DocPlaceSamples, date \in TimestampSamples}

\* Byte strings: bytes that are no text, and the documents as UTF-8.
ByteSamples ==
    {[utf8 |-> FALSE, text |-> [syntax |-> "text"]]}
    \cup {[utf8 |-> TRUE, text |-> s] : s \in DocSamples}

(***************************************************************************)
(* SpecConditions: a caller decodes two weather codes.                     *)
(***************************************************************************)
InitConditions ==
    /\ codes \in I8 \X I8
    /\ conds = <<NotCalled, NotCalled>>
    /\ call = NoCall
    /\ ret = NotCalled
    /\ keptLat = NoLatitude
    /\ keptLon = NoLongitude
    /\ rawCall = NoCall
    /\ rawRet = NotCalled
    /\ attempted = <<>>
    /\ threads = <<>>

CallConditionsTryFrom(i) ==
    /\ conds' = [conds EXCEPT ![i] = ConditionsTryFrom(codes[i])]
    /\ UNCHANGED <<codes, call, ret, keptLat, keptLon, rawCall, rawRet, attempted, threads>>

NextConditions == \E i \in 1..2 : CallConditionsTryFrom(i)

SpecConditions == InitConditions /\ [][NextConditions]_vars

(***************************************************************************)
(* SpecUnits: a caller builds latitudes, longitudes and coordinates with   *)
(* the public operations of units.rs, keeping some of the values it got.   *)
(***************************************************************************)
InitUnits ==
    /\ codes = <<0, 0>>
    /\ conds = <<NotCalled, NotCalled>>
    /\ call = NoCall
    /\ ret = NotCalled
    /\ keptLat = NoLatitude
    /\ keptLon = NoLongitude
    /\ rawCall = NoCall
    /\ rawRet = NotCalled
    /\ attempted = <<>>
    /\ threads = <<>>

CallLatitudeNew(d) ==
    /\ call = NoCall
    /\ call' = [op |-> "Latitude::new", d |-> d]
    /\ ret' = LatitudeNew(d)
    /\ UNCHANGED <<codes, conds, keptLat, keptLon, rawCall, rawRet, attempted, threads>>

CallLatitudeTryFrom(d) ==
    /\ call = NoCall
    /\ call' = [op |-> "Latitude::try_from", d |-> d]
    /\ ret' = LatitudeTryFrom(d)
    /\ UNCHANGED <<codes, conds, keptLat, keptLon, rawCall, rawRet, attempted, threads>>

CallLongitudeNew(d) ==
    /\ call = NoCall
    /\ call' = [op |-> "Longitude::new", d |-> d]
    /\ ret' = LongitudeNew(d)
    /\ UNCHANGED <<codes, conds, keptLat, keptLon, rawCall, rawRet, attempted, threads>>

CallLongitudeTryFrom(d) ==
    /\ call = NoCall
    /\ call' = [op |-> "Longitude::try_from", d |-> d]
    /\ ret' = LongitudeTryFrom(d)
    /\ UNCHANGED <<codes, conds, keptLat, keptLon, rawCall, rawRet, attempted, threads>>

CallCoordinatesTryFrom(value) ==
    /\ call = NoCall
    /\ call' = [op |-> "Coordinates::try_from", value |-> value]
    /\ ret' = CoordinatesTryFrom(value)
    /\ UNCHANGED <<codes, conds, keptLat, keptLon, rawCall, rawRet, attempted, threads>>

CallDeserializeCoordinates(value) ==
    /\ call = NoCall
    /\ call' = [op |-> "Coordinates::deserialize", value |-> value]
    /\ ret' = DeserializeCoordinates(value)
    /\ UNCHANGED <<codes, conds, keptLat, keptLon, rawCall, rawRet, attempted, threads>>

ReturnsLatitude == call.op \in {"Latitude::new", "Latitude::try_from"}

ReturnsLongitude == call.op \in {"Longitude::new", "Longitude::try_from"}

ReturnsCoordinates ==
    call.op \in {"Coordinates::try_from", "Coordinates::deserialize", "Coordinates{..}"}

\* The caller copies a Latitude out of the last result (Latitude is Copy; the
\* fields of Coordinates are public).
KeepLatitude ==
    /\ IsOk(ret)
    /\ ReturnsLatitude \/ ReturnsCoordinates
    /\ keptLat' = IF ReturnsLatitude THEN ret.val ELSE ret.val.latitude
    /\ UNCHANGED <<codes, conds, call, ret, keptLon, rawCall, rawRet, attempted, threads>>

KeepLongitude ==
    /\ IsOk(ret)
    /\ ReturnsLongitude \/ ReturnsCoordinates
    /\ keptLon' = IF ReturnsLongitude THEN ret.val ELSE ret.val.longitude
    /\ UNCHANGED <<codes, conds, call, ret, keptLat, rawCall, rawRet, attempted, threads>>

\* The caller writes a Coordinates literal from values it holds: the only way
\* to a Coordinates that does not go through try_from.
BuildCoordinates(alt) ==
    /\ keptLat # NoLatitude
    /\ keptLon # NoLongitude
    /\ call = NoCall
    /\ call' = [op |-> "Coordinates{..}", alt |-> alt]
    /\ ret' = Ok(Coordinates(keptLat, keptLon, Metres(alt)))
    /\ UNCHANGED <<codes, conds, keptLat, keptLon, rawCall, rawRet, attempted, threads>>

\* The caller is done with the last result and drops it.
DropResult ==
    /\ call # NoCall
    /\ call' = NoCall
    /\ ret' = NotCalled
    /\ UNCHANGED <<codes, conds, keptLat, keptLon, rawCall, rawRet, attempted, threads>>

NextUnits ==
    \/ \E d \in DegreeSamples : CallLatitudeNew(d)
    \/ \E d \in DegreeSamples : CallLatitudeTryFrom(d)
    \/ \E d \in DegreeSamples : CallLongitudeNew(d)
    \/ \E d \in DegreeSamples : CallLongitudeTryFrom(d)
    \/ \E value \in TripleSamples : CallCoordinatesTryFrom(value)
    \/ \E value \in JsonTripleSamples : CallDeserializeCoordinates(value)
    \/ KeepLatitude
    \/ KeepLongitude
    \/ DropResult
    \/ \E alt \in {AsF32(a) : a \in AltitudeSamples} : BuildCoordinates(alt)

SpecUnits == InitUnits /\ [][NextUnits]_vars

(***************************************************************************)
(* SpecDaily: a caller converts single raw daily records and whole daily   *)
(* envelopes.                                                              *)
(***************************************************************************)
InitDaily ==
    /\ codes = <<0, 0>>
    /\ conds = <<NotCalled, NotCalled>>
    /\ call = NoCall
    /\ ret = NotCalled
    /\ keptLat = NoLatitude
    /\ keptLon = NoLongitude
    /\ rawCall = NoCall
    /\ rawRet = NotCalled
    /\ attempted = <<>>
    /\ threads = <<>>

CallDailyTryFrom(rf) ==
    /\ rawCall = NoCall
    /\ rawCall' = [op |-> "Daily::try_from", rf |-> rf]
    /\ rawRet' = DailyTryFrom(rf)
    /\ UNCHANGED <<codes, conds, call, ret, keptLat, keptLon, attempted, threads>>

CallForecastDailyTryFrom(value) ==
    /\ rawCall = NoCall
    /\ rawCall' = [op |-> "Forecast::<Daily>::try_from", value |-> value]
    /\ rawRet' = ForecastTryFrom("Daily", value)
    /\ attempted' = ForecastAttempts("Daily", value)
    /\ UNCHANGED <<codes, conds, call, ret, keptLat, keptLon, threads>>

\* The caller is done with the last conversion's result and drops it.
DropRawResult ==
    /\ rawCall # NoCall
    /\ rawCall' = NoCall
    /\ rawRet' = NotCalled
    /\ attempted' = <<>>
    /\ UNCHANGED <<codes, conds, call, ret, keptLat, keptLon, threads>>

NextDaily ==
    \/ \E rf \in DailyRecordSamples : CallDailyTryFrom(rf)
    \/ \E series \in SeriesSamples : CallForecastDailyTryFrom(RawForecastSample(series))
    \/ DropRawResult

SpecDaily == InitDaily /\ [][NextDaily]_vars

(***************************************************************************)
(* SpecForecast: a caller converts hourly and three-hourly records, raw    *)
(* envelopes of every period, and parses documents and byte strings.       *)
(***************************************************************************)
InitForecast ==
    /\ codes = <<0, 0>>
    /\ conds = <<NotCalled, NotCalled>>
    /\ call = NoCall
    /\ ret = NotCalled
    /\ keptLat = NoLatitude
    /\ keptLon = NoLongitude
    /\ rawCall = NoCall
    /\ rawRet = NotCalled
    /\ attempted = <<>>
    /\ threads = <<>>

CallHourlyTryFrom(rf) ==
    /\ rawCall = NoCall
    /\ rawCall' = [op |-> "Hourly::try_from", rf |-> rf]
    /\ rawRet' = HourlyTryFrom(rf)
    /\ UNCHANGED <<codes, conds, call, ret, keptLat, keptLon, attempted, threads>>

CallThreeHourlyTryFrom(rf) ==
    /\ rawCall = NoCall
    /\ rawCall' = [op |-> "ThreeHourly::try_from", rf |-> rf]
    /\ rawRet' = ThreeHourlyTryFrom(rf)
    /\ UNCHANGED <<codes, conds, call, ret, keptLat, keptLon, attempted, threads>>

CallForecastTryFrom(period, value) ==
    /\ rawCall = NoCall
    /\ rawCall' = [op |-> "Forecast::try_from", period |-> period, value |-> value]
    /\ rawRet' = ForecastTryFrom(period, value)
    /\ attempted' = ForecastAttempts(period, value)
    /\ UNCHANGED <<codes, conds, call, ret, keptLat, keptLon, threads>>

\* impl FromStr for Forecast<Hourly>.
CallFromStr(s) ==
    /\ rawCall = NoCall
    /\ rawCall' = [op |-> "Forecast::from_str", period |-> "Hourly", s |-> s]
    /\ rawRet' = TryFromStr("Hourly", s)
    /\ attempted' = ParseAttempts("Hourly", FromStr("Hourly", s))
    /\ UNCHANGED <<codes, conds, call, ret, keptLat, keptLon, threads>>

\* impl TryFrom<&[u8]> for Forecast<Hourly>.
CallTryFromBytes(bytes) ==
    /\ rawCall = NoCall
    /\ rawCall' = [op |-> "Forecast::try_from_bytes", period |-> "Hourly", bytes |-> bytes]
    /\ rawRet' = TryFromBytes("Hourly", bytes)
    /\ attempted' = ParseAttempts("Hourly", FromSlice("Hourly", bytes))
    /\ UNCHANGED <<codes, conds, call, ret, keptLat, keptLon, threads>>

NextForecast ==
    \/ \E rf \in HourlyRecordSamples : CallHourlyTryFrom(rf)
    \/ \E rf \in ThreeHourlyRecordSamples : CallThreeHourlyTryFrom(rf)
    \/ \E period \in Periods : \E value \in EnvelopeSamples(period) :
            CallForecastTryFrom(period, value)
    \/ \E s \in DocSamples : CallFromStr(s)
    \/ \E bytes \in ByteSamples : CallTryFromBytes(bytes)
    \/ DropRawResult

SpecForecast == InitForecast /\ [][NextForecast]_vars

(***************************************************************************)
(* SpecUrl: a caller validates degrees, keeps a latitude and a longitude,  *)
(* and asks for the request URL of a period.                               *)
(***************************************************************************)
InitUrl ==
    /\ codes = <<0, 0>>
    /\ conds = <<NotCalled, NotCalled>>
    /\ call = NoCall
    /\ ret = NotCalled
    /\ keptLat = NoLatitude
    /\ keptLon = NoLongitude
    /\ rawCall = NoCall
    /\ rawRet = NotCalled
    /\ attempted = <<>>
    /\ threads = <<>>

\* url_for_location takes a Latitude and a Longitude: values the caller holds.
CallUrlForLocation(period) ==
    /\ call = NoCall
    /\ keptLat # NoLatitude
    /\ keptLon # NoLongitude
    /\ call' = [op |-> "url_for_location", period |-> period,
                latitude |-> keptLat, longitude |-> keptLon]
    /\ ret' = UrlForLocation(period, keptLat, keptLon)
    /\ UNCHANGED <<codes, conds, keptLat, keptLon, rawCall, rawRet, attempted, threads>>

NextUrl ==
    \/ \E d \in DegreeSamples : CallLatitudeNew(d)
    \/ \E d \in DegreeSamples : CallLongitudeNew(d)
    \/ KeepLatitude
    \/ KeepLongitude
    \/ \E period \in Periods : CallUrlForLocation(period)
    \/ DropResult

SpecUrl == InitUrl /\ [][NextUrl]_vars

(***************************************************************************)
(* SpecThreads: several threads each convert an envelope of their own, one *)
(* statement at a time, in any interleaving.                               *)
(***************************************************************************)
NThreads == 2

\* The envelopes the threads are given: of every period, converting, failing
\* on a record, aborting on a record and without any feature.
ThreadInputSamples ==
    {[period |-> "Hourly",
      value |-> RawForecastSample(<<RawHourlySample(30, "low", 2, {}),
                                    RawHourlySample(10, "high", 3, HourlyOptionalKeys)>>)],
     [period |-> "Hourly",
      value |-> RawForecastSample(<<RawHourlySample(10, "high", 3, HourlyOptionalKeys),
                                    RawHourlySample(20, "low", 4, {})>>)],
     [period |-> "Hourly", value |-> [features |-> <<>>]],
     [period |-> "ThreeHourly",
      value |-> RawForecastSample(<<RawThreeHourlySample(20, "odd", -2),
                                    RawThreeHourlySample(30, "low", 2)>>)],
     [period |-> "Daily",
      value |-> RawForecastSample(
                    <<RawDailySample(40, 40, Some(Lit(12)), Some(13), Some(3), 2, {})>>)],
     [period |-> "Daily",
      value |-> RawForecastSample(
                    <<RawDailySample(10, 0, None, None, None, 2, DayProbabilityFields),
                      RawDailySample(80, 40, Some(Lit(12)), None, Some(3), 2, {})>>)]}

\* A thread about to call Forecast::try_from on input: value is the argument
\* it owns (mut value), acc the Vec collect builds, out what the call did.
ThreadAt(input) ==
    [period |-> input.period, input |-> input.value, value |-> input.value,
     pc |-> "remove", feature |-> <<>>, i |-> 1, acc |-> <<>>, out |-> NotCalled]

\* The Vec a thread's collect pushes to, as it would be if all threads pushed
\* to one Vec.
SharedVec(ths, t) == ths[1].acc

\* The Vec a thread's collect pushes to: a local of that thread's call.
OwnVec(ths, t) == ths[t].acc

InitThreads ==
    /\ codes = <<0, 0>>
    /\ conds = <<NotCalled, NotCalled>>
    /\ call = NoCall
    /\ ret = NotCalled
    /\ keptLat = NoLatitude
    /\ keptLon = NoLongitude
    /\ rawCall = NoCall
    /\ rawRet = NotCalled
    /\ attempted = <<>>
    /\ threads = <<>>

\* The caller starts the threads, each with an input of its own.
Spawn(inputs) ==
    /\ threads = <<>>
    /\ threads' = [t \in 1..NThreads |-> ThreadAt(inputs[t])]
    /\ UNCHANGED <<codes, conds, call, ret, keptLat, keptLon, rawCall, rawRet, attempted>>

\* let feature = value.features.remove(0);
ThreadRemove(t) ==
    /\ t \in DOMAIN threads
    /\ threads[t].pc = "remove"
    /\ LET th == threads[t]
       IN  threads' =
             [threads EXCEPT ![t] =
                IF Len(th.value.features) = 0
                THEN [th EXCEPT !.pc = "done",
                                !.out = Panic("removal index (is 0) should be < len (is 0)")]
                ELSE [th EXCEPT !.pc = "collect",
                                !.feature = <<th.value.features[1]>>,
                                !.value = [features |-> Tail(th.value.features)]]]
    /\ UNCHANGED <<codes, conds, call, ret, keptLat, keptLon, rawCall, rawRet, attempted>>

\* One turn of map(R::Output::try_from) under collect: the next record is
\* converted and pushed, or its failure ends the call.
ThreadConvert(t) ==
    /\ t \in DOMAIN threads
    /\ threads[t].pc = "collect"
    /\ threads[t].i <= Len(threads[t].feature[1].properties.time_series)
    /\ LET th == threads[t]
           r == RecordTryFrom(th.period, th.feature[1].properties.time_series[th.i])
       IN  threads' =
             [threads EXCEPT ![t] =
                IF IsOk(r)
                THEN [th EXCEPT !.acc = Append(OwnVec(threads, t), r.val), !.i = th.i + 1]
                ELSE [th EXCEPT !.pc = "done", !.out = r]]
    /\ UNCHANGED <<codes, conds, call, ret, keptLat, keptLon, rawCall, rawRet, attempted>>

\* The series is exhausted: Ok(Forecast { .. }) is returned.
ThreadReturn(t) ==
    /\ t \in DOMAIN threads
    /\ threads[t].pc = "collect"
    /\ threads[t].i > Len(threads[t].feature[1].properties.time_series)
    /\ LET th == threads[t]
           feature == th.feature[1]
       IN  threads' =
             [threads EXCEPT ![t] =
                [th EXCEPT !.pc = "done",
                          !.out = Ok([location_name |-> feature.properties.location.name,
                                      coordinates |-> feature.geometry.coordinates,
                                      requested_point_distance |->
                                          Metres(feature.properties.request_point_distance),
                                      predictions_made_at |->
                                          feature.properties.model_run_date,
                                      predictions |-> th.acc])]]
    /\ UNCHANGED <<codes, conds, call, ret, keptLat, keptLon, rawCall, rawRet, attempted>>

\* Every thread has finished and the caller joins them.
Join ==
    /\ threads # <<>>
    /\ \A t \in DOMAIN threads : threads[t].pc = "done"
    /\ threads' = <<>>
    /\ UNCHANGED <<codes, conds, call, ret, keptLat, keptLon, rawCall, rawRet, attempted>>

NextThreads ==
    \/ \E inputs \in [1..NThreads -> ThreadInputSamples] : Spawn(inputs)
    \/ \E t \in 1..NThreads : ThreadRemove(t)
    \/ \E t \in 1..NThreads : ThreadConvert(t)
    \/ \E t \in 1..NThreads : ThreadReturn(t)
    \/ Join

SpecThreads == InitThreads /\ [][NextThreads]_vars

(***************************************************************************)
(* SpecDisplay: the caller validates degrees, keeps the values and prints  *)
(* them; it also grades UV values and asks for their advice.               *)
(***************************************************************************)
InitDisplay ==
    /\ codes = <<0, 0>>
    /\ conds = <<NotCalled, NotCalled>>
    /\ call = NoCall
    /\ ret = NotCalled
    /\ keptLat = NoLatitude
    /\ keptLon = NoLongitude
    /\ rawCall = NoCall
    /\ rawRet = NotCalled
    /\ attempted = <<>>
    /\ threads = <<>>

\* format!("{}", latitude) on a Latitude the caller holds.
CallLatitudeDisplay ==
    /\ call = NoCall
    /\ keptLat # NoLatitude
    /\ call' = [op |-> "Latitude::fmt", latitude |-> keptLat]
    /\ ret' = Returned(LatitudeDisplay(keptLat))
    /\ UNCHANGED <<codes, conds, keptLat, keptLon, rawCall, rawRet, attempted, threads>>

CallLongitudeDisplay ==
    /\ call = NoCall
    /\ keptLon # NoLongitude
    /\ call' = [op |-> "Longitude::fmt", longitude |-> keptLon]
    /\ ret' = Returned(LongitudeDisplay(keptLon))
    /\ UNCHANGED <<codes, conds, keptLat, keptLon, rawCall, rawRet, attempted, threads>>

\* UvIndex::from(value), lib.rs.
CallUvIndexFrom(value) ==
    /\ call = NoCall
    /\ call' = [op |-> "UvIndex::from", value |-> value]
    /\ ret' = Returned(UvIndexFrom(value))
    /\ UNCHANGED <<codes, conds, keptLat, keptLon, rawCall, rawRet, attempted, threads>>

\* UvIndex(value).advice_message(), units.rs.
CallAdviceMessage(value) ==
    /\ call = NoCall
    /\ call' = [op |-> "UvIndex::advice_message", value |-> value]
    /\ ret' = Returned(AdviceMessage(UvIndex(value)))
    /\ UNCHANGED <<codes, conds, keptLat, keptLon, rawCall, rawRet, attempted, threads>>

NextDisplay ==
    \/ \E d \in DegreeSamples : CallLatitudeNew(d)
    \/ \E d \in DegreeSamples : CallLongitudeNew(d)
    \/ KeepLatitude
    \/ KeepLongitude
    \/ CallLatitudeDisplay
    \/ CallLongitudeDisplay
    \/ \E value \in U8 : CallUvIndexFrom(value)
    \/ \E value \in U8 : CallAdviceMessage(value)
    \/ DropResult

SpecDisplay == InitDisplay /\ [][NextDisplay]_vars

(***************************************************************************)
(* SpecConditionsText: the caller prints two Conditions values (the enum   *)
(* is public, so any variant can be at hand).                              *)
(***************************************************************************)
InitConditionsText ==
    /\ codes = <<0, 0>>
    /\ conds = <<NotCalled, NotCalled>>
    /\ call = NoCall
    /\ ret = NotCalled
    /\ keptLat = NoLatitude
    /\ keptLon = NoLongitude
    /\ rawCall = NoCall
    /\ rawRet = NotCalled
    /\ attempted = <<>>
    /\ threads = <<>>

\* format!("{}", c) at call site i; the value printed is kept beside its text.
CallConditionsDisplay(i, c) ==
    /\ conds' = [conds EXCEPT ![i] = Returned([of |-> c, text |-> ConditionsDisplay(c)])]
    /\ UNCHANGED <<codes, call, ret, keptLat, keptLon, rawCall, rawRet, attempted, threads>>

NextConditionsText ==
    \E i \in 1..2 : \E c \in ConditionsVariants : CallConditionsDisplay(i, c)

SpecConditionsText == InitConditionsText /\ [][NextConditionsText]_vars

(***************************************************************************)
(* Properties of the weather-code decoder (SpecConditions).                *)
(***************************************************************************)
KnownCodes == (-1 .. 30) \ {4}

Called(i) == conds[i] # NotCalled

\* C4: every code in {-1, 0..30} except 4 decodes successfully; two different
\* known codes never decode to the same variant, and the same code decoded at
\* two call sites gives the same variant.
C4_KnownCodesDecodeInjectively ==
    /\ \A i \in 1..2 : (Called(i) /\ codes[i] \in KnownCodes) => IsOk(conds[i])
    /\ (Called(1) /\ Called(2) /\ codes[1] \in KnownCodes /\ codes[2] \in KnownCodes)
         => (codes[1] # codes[2] <=> conds[1] # conds[2])

\* The day and night siblings 2 and 3 were both decoded, to different variants.
C4_Witness ==
    /\ codes = <<2, 3>>
    /\ IsOk(conds[1]) /\ IsOk(conds[2])
    /\ conds[1].val # conds[2].val

\* C5: every i8 code that is 4, above 30 or below -1 fails to decode, with the
\* unknown-condition error carrying that very code.
C5_UnknownCodesFailWithCode ==
    \A i \in 1..2 :
        (Called(i) /\ (codes[i] = 4 \/ codes[i] > 30 \/ codes[i] < -1))
            => conds[i] = Err(UnknownWeatherCondition(codes[i]))

\* Code 4 and the smallest i8 were both decoded, and both failed.
C5_Witness ==
    /\ codes = <<4, I8Min>>
    /\ IsErr(conds[1]) /\ conds[1].err.code = 4
    /\ IsErr(conds[2]) /\ conds[2].err.code = I8Min

(***************************************************************************)
(* Properties of geographic validation (SpecUnits).                        *)
(***************************************************************************)
\* x is a finite float with -limit <= x <= limit.
InClosedRange(x, limit) ==
    /\ IsFinite(x)
    /\ -(limit * Unit) <= Steps(x)
    /\ Steps(x) <= limit * Unit

\* C6: a triple [a, b, c] with a in [-180, 180] and b in [-90, 90] converts, and
\* element 0 becomes the longitude, element 1 the latitude and element 2 (as
\* f32) the altitude.
C6_TripleIsLonLatAlt ==
    (/\ call.op = "Coordinates::try_from"
     /\ InClosedRange(call.value[1], 180)
     /\ InClosedRange(call.value[2], 90))
        => /\ IsOk(ret)
           /\ LongitudeAsFloat(ret.val.longitude) = call.value[1]
           /\ LatitudeAsFloat(ret.val.latitude) = call.value[2]
           /\ ret.val.altitude = Metres(AsF32(call.value[3]))

\* A triple whose first element is a valid longitude but not a valid latitude
\* was converted.
C6_Witness ==
    /\ call.op = "Coordinates::try_from"
    /\ call.value = <<Lit(-180), Lit(90), Lit(27)>>
    /\ IsOk(ret)
    /\ ret.val.longitude.deg = Lit(-180)
    /\ ret.val.latitude.deg = Lit(90)

\* C7: a triple whose longitude (element 0) is outside [-180, 180] or whose
\* latitude (element 1) is outside [-90, 90] fails with the geographic-bounds
\* error, whatever the other elements are.
C7_OutOfBoundsTripleFails ==
    (/\ call.op = "Coordinates::try_from"
     /\ \/ ~InClosedRange(call.value[1], 180)
        \/ ~InClosedRange(call.value[2], 90))
        => ret = Err(GeographicDegreesOutOfBounds)

\* A triple with a valid latitude and a longitude one grid step too far failed.
C7_Witness ==
    /\ call.op = "Coordinates::try_from"
    /\ call.value[1] = Grid(180 * Unit + 1)
    /\ call.value[2] = Lit(-90)
    /\ ret = Err(GeographicDegreesOutOfBounds)

\* C8: Latitude::new(d) is Ok exactly when d is in [-90, 90] and
\* Longitude::new(d) exactly when d is in [-180, 180]; everything else, NaN and
\* the infinities included, is the geographic-bounds error.
C8_NewAcceptsExactlyTheClosedRange ==
    /\ call.op = "Latitude::new" =>
         IF InClosedRange(call.d, 90)
         THEN ret = Ok(Latitude(call.d))
         ELSE ret = Err(GeographicDegreesOutOfBounds)
    /\ call.op = "Longitude::new" =>
         IF InClosedRange(call.d, 180)
         THEN ret = Ok(Longitude(call.d))
         ELSE ret = Err(GeographicDegreesOutOfBounds)

\* The upper endpoint of the latitude range was accepted.
C8_Witness ==
    /\ call.op = "Latitude::new"
    /\ call.d = Lit(90)
    /\ IsOk(ret)

\* Every Latitude and every Longitude the state holds: the ones the caller
\* kept and the ones in the last result.
LatitudesInState ==
    (IF keptLat # NoLatitude THEN {keptLat} ELSE {})
    \cup (IF IsOk(ret) /\ ReturnsLatitude THEN {ret.val} ELSE {})
    \cup (IF IsOk(ret) /\ ReturnsCoordinates THEN {ret.val.latitude} ELSE {})

LongitudesInState ==
    (IF keptLon # NoLongitude THEN {keptLon} ELSE {})
    \cup (IF IsOk(ret) /\ ReturnsLongitude THEN {ret.val} ELSE {})
    \cup (IF IsOk(ret) /\ ReturnsCoordinates THEN {ret.val.longitude} ELSE {})

\* C9: every Latitude in existence has as_float() in [-90, 90] and every
\* Longitude has as_float() in [-180, 180], however it was obtained.
C9_ExistingDegreesAreInRange ==
    /\ \A lat \in LatitudesInState : InClosedRange(LatitudeAsFloat(lat), 90)
    /\ \A lon \in LongitudesInState : InClosedRange(LongitudeAsFloat(lon), 180)

\* A Coordinates literal was written from a kept latitude and a kept longitude
\* that sit on the endpoints of their ranges.
C9_Witness ==
    /\ call.op = "Coordinates{..}"
    /\ IsOk(ret)
    /\ ret.val.latitude.deg = Lit(-90)
    /\ ret.val.longitude.deg = Lit(180)

(***************************************************************************)
(* Properties of the request URLs (SpecUrl).                               *)
(***************************************************************************)
UrlCall == call.op = "url_for_location"

IsDigitChar(c) == \E d \in 1..10 : DigitChars[d] = c

\* The number a run of decimal digits stands for.
RECURSIVE DigitsValue(_)
DigitsValue(chars) ==
    IF Len(chars) = 0 THEN 0
    ELSE DigitsValue(SubSeq(chars, 1, Len(chars) - 1)) * 10
         + ((CHOOSE d \in 1..10 : DigitChars[d] = chars[Len(chars)]) - 1)

RECURSIVE Pow10(_)
Pow10(n) == IF n = 0 THEN 1 ELSE 10 * Pow10(n - 1)

\* A decimal string split into its sign, integer digits and fraction digits.
DecimalParts(chars) ==
    LET negative == Len(chars) > 0 /\ chars[1] = "-"
        body == IF negative THEN Tail(chars) ELSE chars
        points == {i \in 1..Len(body) : body[i] = "."}
        point == IF points = {} THEN Len(body) + 1 ELSE CHOOSE i \in points : TRUE
    IN  [sign |-> IF negative THEN -1 ELSE 1,
         int |-> SubSeq(body, 1, point - 1),
         frac |-> SubSeq(body, point + 1, Len(body)),
         points |-> Cardinality(points)]

\* chars is a plain decimal: an optional minus, digits, and at most one point
\* followed by digits (no exponent, no plus, no spaces).
IsDecimal(chars) ==
    LET parts == DecimalParts(chars)
    IN  /\ parts.points <= 1
        /\ Len(parts.int) > 0
        /\ parts.points = 1 => Len(parts.frac) > 0
        /\ \A i \in 1..Len(parts.int) : IsDigitChar(parts.int[i])
        /\ \A i \in 1..Len(parts.frac) : IsDigitChar(parts.frac[i])

\* The float a plain decimal reads back as, when it is on the model's grid.
DecimalValue(chars) ==
    LET parts == DecimalParts(chars)
    IN  Fin(parts.sign,
            DigitsValue(parts.int) * Unit
            + (DigitsValue(parts.frac) * Unit) \div Pow10(Len(parts.frac)))

DecimalIsExact(chars) ==
    LET parts == DecimalParts(chars)
    IN  (DigitsValue(parts.frac) * Unit) % Pow10(Len(parts.frac)) = 0

\* The endpoint whose last path segment is last.
EndpointEndingIn(last) ==
    [scheme |-> "https", host |-> "data.hub.api.metoffice.gov.uk",
     path |-> <<"sitespecific", "v0", "point", last>>]

LastSegmentOf(period) ==
    CASE period = "Hourly" -> "hourly"
      [] period = "ThreeHourly" -> "three-hourly"
      [] period = "Daily" -> "daily"

\* The query value at place i is an unescaped plain decimal that reads back
\* as the float x.
QueryValueIs(url, i, x) ==
    /\ IsDecimal(url.query[i][2])
    /\ DecimalIsExact(url.query[i][2])
    /\ DecimalValue(url.query[i][2]) = x

\* C15: url_for_location returns a URL for every validated latitude and
\* longitude, never aborting; its endpoint is the one of the period (the three
\* differ only in the last path segment) and its query is, in order, latitude
\* and longitude as the decimal string of as_float(), then source=BD1,
\* excludeParameterMetadata=true, includeLocationName=true.
C15_UrlForLocationIsTotalAndExact ==
    UrlCall
        => /\ ret.tag = "Returned"
           /\ [scheme |-> ret.val.scheme, host |-> ret.val.host, path |-> ret.val.path]
                  = EndpointEndingIn(LastSegmentOf(call.period))
           /\ Len(ret.val.query) = 5
           /\ ret.val.query[1][1] = "latitude"
           /\ QueryValueIs(ret.val, 1, LatitudeAsFloat(call.latitude))
           /\ ret.val.query[2][1] = "longitude"
           /\ QueryValueIs(ret.val, 2, LongitudeAsFloat(call.longitude))
           /\ ret.val.query[3] = <<"source", <<"B", "D", "1">>>>
           /\ ret.val.query[4] = <<"excludeParameterMetadata", <<"t", "r", "u", "e">>>>
           /\ ret.val.query[5] = <<"includeLocationName", <<"t", "r", "u", "e">>>>

\* The three-hourly URL for latitude -90 and a longitude that is not whole.
C15_Witness ==
    /\ UrlCall
    /\ call.period = "ThreeHourly"
    /\ call.latitude.deg = Lit(-90)
    /\ call.longitude.deg = Grid(1)
    /\ ret.tag = "Returned"
    /\ ret.val.path[4] = "three-hourly"
    /\ ret.val.query[1][2] = <<"-", "9", "0">>
    /\ ret.val.query[2][2][2] = "."

(***************************************************************************)
(* Properties of the daily conversion and the envelope (SpecDaily).        *)
(***************************************************************************)
DailyCall == rawCall.op = "Daily::try_from"

ForecastDailyCall == rawCall.op = "Forecast::<Daily>::try_from"

\* The series of the envelope handed to Forecast::try_from.
SeriesOfCall == rawCall.value.features[1].properties.time_series

LacksMaxFeelsLike(rf) == IsNone(rf.day_max_feels_like_temp)

NightCodeKnown(rf) == rf.night_significant_weather_code \in KnownCodes

DayCodeUnknown(rf) ==
    /\ IsSome(rf.day_significant_weather_code)
    /\ rf.day_significant_weather_code[1] \notin KnownCodes

\* The documented content of Day::Past: the midday wind speed, direction and
\* gust, visibility, relative humidity, pressure, the max-temperature triple
\* and the two feels-like bounds, and nothing else.
DocumentedPast(rf) ==
    [variant |-> "Past",
     wind_speed |-> MetresPerSecond(rf.midday_10m_wind_speed),
     wind_direction |-> Degrees(rf.midday_10m_wind_direction),
     wind_gust_speed |-> MetresPerSecond(rf.midday_10m_wind_gust),
     visibility |-> Metres(rf.midday_visibility),
     relative_humidity |-> Percentage(rf.midday_relative_humidity),
     pressure |-> Pascals(rf.midday_mslp),
     temperature_maximum |->
         [most_likely |-> Celsius(rf.day_max_screen_temperature),
          upper_bound |-> Celsius(rf.day_upper_bound_max_temp),
          lower_bound |-> Celsius(rf.day_lower_bound_max_temp)],
     temperature_feels_like_maximum_upper_bound |->
         Celsius(rf.day_upper_bound_max_feels_like_temp),
     temperature_feels_like_maximum_lower_bound |->
         Celsius(rf.day_lower_bound_max_feels_like_temp)]

\* C1: a raw daily record without the max-feels-like field (and with a known
\* night code) converts to Day::Past with exactly the documented content, as a
\* record of its own and at every place of a converted series.
C1_PastChosenByAbsenceOnly ==
    /\ (DailyCall /\ LacksMaxFeelsLike(rawCall.rf) /\ NightCodeKnown(rawCall.rf))
         => /\ IsOk(rawRet)
            /\ rawRet.val.day = DocumentedPast(rawCall.rf)
    /\ (ForecastDailyCall /\ IsOk(rawRet))
         => \A i \in 1..Len(SeriesOfCall) :
               LacksMaxFeelsLike(SeriesOfCall[i])
                   => rawRet.val.predictions[i].day = DocumentedPast(SeriesOfCall[i])

\* A series of three converted with its Past records in the middle and at the
\* end, after a Future record.
C1_Witness ==
    /\ ForecastDailyCall
    /\ IsOk(rawRet)
    /\ Len(rawRet.val.predictions) = 3
    /\ rawRet.val.predictions[1].day.variant = "Future"
    /\ LacksMaxFeelsLike(SeriesOfCall[2])
    /\ rawRet.val.predictions[2].day.variant = "Past"
    /\ rawRet.val.predictions[3].day.variant = "Past"

\* C2: a raw daily record with the max-feels-like field and known weather
\* codes converts to Day::Future, whichever of the other optional day fields
\* are present, and the conversion never aborts.
C2_FutureConvertsWhateverElseIsAbsent ==
    (/\ DailyCall
     /\ ~LacksMaxFeelsLike(rawCall.rf)
     /\ NightCodeKnown(rawCall.rf)
     /\ ~DayCodeUnknown(rawCall.rf))
        => /\ IsOk(rawRet)
           /\ rawRet.val.day.variant = "Future"

IsUnknownConditionError(r) == IsErr(r) /\ r.err.kind = "UnknownWeatherCondition"

UnknownCodesRead(rf) ==
    (IF NightCodeKnown(rf) THEN {} ELSE {rf.night_significant_weather_code})
    \cup (IF ~LacksMaxFeelsLike(rf) /\ DayCodeUnknown(rf)
          THEN {rf.day_significant_weather_code[1]} ELSE {})

FailingPlaces(series) == {i \in 1..Len(series) : IsErr(DailyTryFrom(series[i]))}

Earliest(places) == CHOOSE i \in places : \A j \in places : i <= j

\* C10: when a record of the series fails conversion, Forecast::try_from
\* returns Err, and the error is that of the earliest failing record.
C10_SeriesFailsWithEarliestError ==
    (ForecastDailyCall /\ FailingPlaces(SeriesOfCall) # {})
        => /\ IsErr(rawRet)
           /\ rawRet = DailyTryFrom(SeriesOfCall[Earliest(FailingPlaces(SeriesOfCall))])

(***************************************************************************)
(* Properties of the hourly and three-hourly conversions, the envelope of  *)
(* every period and the parse entry points (SpecForecast).                 *)
(***************************************************************************)
HourlyCall == rawCall.op = "Hourly::try_from"

ThreeHourlyCall == rawCall.op = "ThreeHourly::try_from"

EnvelopeCall == rawCall.op = "Forecast::try_from"

FromStrCall == rawCall.op = "Forecast::from_str"

FromBytesCall == rawCall.op = "Forecast::try_from_bytes"

\* The raw series of the envelope handed to Forecast::try_from.
EnvelopeSeries == rawCall.value.features[1].properties.time_series

\* C11: when Forecast::try_from succeeds, predictions is as long as the raw
\* series and its i-th element is the conversion of the i-th raw record (so it
\* carries the i-th record's time): nothing is dropped, duplicated or moved.
C11_PredictionsFollowTheSeries ==
    (EnvelopeCall /\ IsOk(rawRet))
        => /\ Len(rawRet.val.predictions) = Len(EnvelopeSeries)
           /\ \A i \in 1..Len(EnvelopeSeries) :
                /\ Ok(rawRet.val.predictions[i])
                       = RecordTryFrom(rawCall.period, EnvelopeSeries[i])
                /\ rawRet.val.predictions[i].time = EnvelopeSeries[i].time

\* A successful conversion of a series of three records, two of them the same
\* record, whose times are not ascending.
C11_Witness ==
    /\ EnvelopeCall
    /\ IsOk(rawRet)
    /\ Len(EnvelopeSeries) = 3
    /\ EnvelopeSeries[1] = EnvelopeSeries[3]
    /\ EnvelopeSeries[1].time.minutes > EnvelopeSeries[2].time.minutes

\* The five optional fields of Hourly, each with the raw field it is mapped
\* from and the unit it is wrapped in.
HourlyOptionalFields ==
    {<<"temperature_maximum", "max_screen_air_temp", "Celsius">>,
     <<"temperature_minimum", "min_screen_air_temp", "Celsius">>,
     <<"precipitation_total", "total_precip_amount", "Millimetres">>,
     <<"snow_total", "total_snow_amount", "Millimetres">>,
     <<"wind_gust_hourly_maximum_speed", "max_10m_wind_gust", "MetresPerSecond">>}

\* The mandatory fields of Hourly, in the same form.
HourlyMandatoryFields ==
    {<<"temperature", "screen_temperature", "Celsius">>,
     <<"temperature_feels_like", "feels_like_temperature", "Celsius">>,
     <<"screen_dew_point_temperature", "screen_dew_point_temperature", "Celsius">>,
     <<"precipitation_probability", "prob_of_precipitation", "Percentage">>,
     <<"precipitation_rate", "precipitation_rate", "MillimetresPerHour">>,
     <<"wind_speed", "wind_speed_10m", "MetresPerSecond">>,
     <<"wind_direction", "wind_direction_from_10m", "Degrees">>,
     <<"wind_gust_speed", "wind_gust_speed_10m", "MetresPerSecond">>,
     <<"visibility", "visibility", "Metres">>,
     <<"relative_humidity", "screen_relative_humidity", "Percentage">>,
     <<"pressure", "mslp", "Pascals">>,
     <<"uv_index", "uv_index", "UvIndex">>}

\* C12: Hourly::try_from fails exactly when the weather code is unknown, never
\* because an optional field is absent; on success each optional field is None
\* exactly when its raw field is absent and Some of the same value otherwise,
\* and every mandatory field is present with its raw value.
C12_HourlyOptionalFieldsPassThrough ==
    HourlyCall
        => /\ IsErr(rawRet) <=> rawCall.rf.significant_weather_code \notin KnownCodes
           /\ IsOk(rawRet) <=> rawCall.rf.significant_weather_code \in KnownCodes
           /\ IsOk(rawRet) =>
                /\ \A f \in HourlyOptionalFields :
                     /\ IsNone(rawRet.val[f[1]]) <=> IsNone(rawCall.rf[f[2]])
                     /\ IsSome(rawCall.rf[f[2]]) =>
                            rawRet.val[f[1]] = Some([unit |-> f[3], v |-> rawCall.rf[f[2]][1]])
                /\ \A f \in HourlyMandatoryFields :
                     rawRet.val[f[1]] = [unit |-> f[3], v |-> rawCall.rf[f[2]]]
                /\ rawRet.val.time = rawCall.rf.time
                /\ Ok(rawRet.val.conditions)
                       = ConditionsTryFrom(rawCall.rf.significant_weather_code)

\* A record with a known code and the five optional fields absent converted,
\* with the five None and the temperature present.
C12_Witness ==
    /\ HourlyCall
    /\ \A f \in HourlyOptionalFields : IsNone(rawCall.rf[f[2]])
    /\ IsOk(rawRet)
    /\ \A f \in HourlyOptionalFields : IsNone(rawRet.val[f[1]])
    /\ rawRet.val.temperature = Celsius(rawCall.rf.screen_temperature)

\* The fields of ThreeHourly, each with the raw field it is taken from and
\* the unit it is wrapped in.
ThreeHourlyFields ==
    {<<"temperature_feels_like", "feels_like_temp", "Celsius">>,
     <<"temperature_maximum", "max_screen_air_temp", "Celsius">>,
     <<"temperature_minimum", "min_screen_air_temp", "Celsius">>,
     <<"precipitation_probability", "prob_of_precipitation", "Percentage">>,
     <<"precipitation_total", "total_precip_amount", "Millimetres">>,
     <<"snow_total", "total_snow_amount", "Millimetres">>,
     <<"wind_speed", "wind_speed_10m", "MetresPerSecond">>,
     <<"wind_direction", "wind_direction_from_10m", "Degrees">>,
     <<"wind_gust_speed", "wind_gust_speed_10m", "MetresPerSecond">>,
     <<"wind_gust_three_hourly_maximum", "max_10m_wind_gust", "MetresPerSecond">>,
     <<"visibility", "visibility", "Metres">>,
     <<"relative_humidity", "screen_relative_humidity", "Percentage">>,
     <<"pressure", "mslp", "Pascals">>,
     <<"uv_index", "uv_index", "UvIndex">>,
     <<"snow_probability", "prob_of_snow", "Percentage">>,
     <<"heavy_snow_probability", "prob_of_heavy_snow", "Percentage">>,
     <<"rain_probability", "prob_of_rain", "Percentage">>,
     <<"heavy_rain_probability", "prob_of_heavy_rain", "Percentage">>,
     <<"hail_probability", "prob_of_hail", "Percentage">>,
     <<"lightning_probability", "prob_of_sferics", "Percentage">>}

\* C13: ThreeHourly::try_from fails exactly when the weather code is unknown,
\* and then with the unknown-condition error carrying that code; with a known
\* code it succeeds with every field populated from its raw field, whatever
\* the numbers are.
C13_ThreeHourlyFailsOnlyOnUnknownCode ==
    ThreeHourlyCall
        => LET code == rawCall.rf.significant_weather_code
           IN  /\ code \notin KnownCodes => rawRet = Err(UnknownWeatherCondition(code))
               /\ code \in KnownCodes =>
                    /\ IsOk(rawRet)
                    /\ \A f \in ThreeHourlyFields :
                         rawRet.val[f[1]] = [unit |-> f[3], v |-> rawCall.rf[f[2]]]
                    /\ rawRet.val.time = rawCall.rf.time
                    /\ Ok(rawRet.val.conditions) = ConditionsTryFrom(code)

\* A record with an unknown negative code failed carrying that code.
C13_Witness ==
    /\ ThreeHourlyCall
    /\ rawCall.rf.significant_weather_code = -2
    /\ rawRet = Err(UnknownWeatherCondition(-2))

\* The typed errors of the crate.
IsTypedError(r) ==
    /\ IsErr(r)
    /\ r.err.kind \in {"Serde", "GeographicDegreesOutOfBounds", "UnknownWeatherCondition"}

\* C14: Forecast::try_from, from_str and try_from(bytes) return the envelope or
\* one of the three typed errors for every structurally valid input, an empty
\* feature collection included; they never terminate abnormally.
C14_ParsingNeverAborts ==
    (EnvelopeCall \/ FromStrCall \/ FromBytesCall)
        => (IsOk(rawRet) \/ IsTypedError(rawRet))

\* The document a parse entry point was given (for bytes, the text they hold).
ParsedDoc == IF FromStrCall THEN rawCall.s ELSE rawCall.bytes.text

ParseCall == FromStrCall \/ FromBytesCall

\* C17: a successful parse or raw conversion takes the envelope from the first
\* feature: its location name, its coordinates (for a document,
\* Coordinates::try_from of the array read as lon, lat, alt) and Metres of its
\* request point distance with no arithmetic applied (for a document, the
\* number as the f32 the raw field holds).
C17_EnvelopeIsTheFirstFeature ==
    /\ (EnvelopeCall /\ IsOk(rawRet)) =>
         LET first == rawCall.value.features[1]
         IN  /\ rawRet.val.location_name = first.properties.location.name
             /\ rawRet.val.coordinates = first.geometry.coordinates
             /\ rawRet.val.requested_point_distance
                    = Metres(first.properties.request_point_distance)
    /\ (ParseCall /\ IsOk(rawRet)) =>
         LET first == ParsedDoc.features[1]
         IN  /\ rawRet.val.location_name = first.properties.location.name
             /\ Ok(rawRet.val.coordinates) = CoordinatesTryFrom(first.geometry.coordinates)
             /\ rawRet.val.coordinates.longitude.deg = first.geometry.coordinates[1]
             /\ rawRet.val.coordinates.latitude.deg = first.geometry.coordinates[2]
             /\ rawRet.val.requested_point_distance
                    = Metres(AsF32(first.properties.requestPointDistance))

\* A document of two features parsed: the envelope is the first one's, with
\* the test's shape of coordinates and its distance as written.
C17_Witness ==
    /\ FromStrCall
    /\ IsOk(rawRet)
    /\ Len(rawCall.s.features) = 2
    /\ rawCall.s.features[2].properties.location.name = "Truro"
    /\ rawRet.val.location_name = "Exeter"
    /\ rawRet.val.coordinates
           = Coordinates(Latitude(Grid(101)), Longitude(Grid(-7)), Metres(Lit(27)))
    /\ rawRet.val.requested_point_distance = Metres(Grid(55))

\* The timestamp string has the provider's form: date, hour and minute, a Z,
\* and no seconds.
IsMinutePrecisionZ(s) == s.form = "iso" /\ IsNone(s.second) /\ s.offset = Some(0)

\* C18: a model-run date given as date-hour-minute with a Z suffix and no
\* seconds comes back in predictions_made_at zoned to UTC, with the same
\* date, hour and minute and with seconds zero.
C18_ModelRunDateIsUtcMinutes ==
    (ParseCall /\ IsOk(rawRet)
        /\ IsMinutePrecisionZ(ParsedDoc.features[1].properties.modelRunDate))
        => LET text == ParsedDoc.features[1].properties.modelRunDate
               made == rawRet.val.predictions_made_at
           IN  /\ made.tz = "UTC"
               /\ CivilDate(made) = text.date
               /\ CivilHour(made) = text.hour
               /\ CivilMinute(made) = text.minute
               /\ made.second = 0

\* Day 2 at 10:00Z parsed to day 2, 10:00:00 UTC.
C18_Witness ==
    /\ FromStrCall
    /\ IsOk(rawRet)
    /\ rawCall.s.features[1].properties.modelRunDate
           = TimestampText(2, 10, 0, None, Some(0))
    /\ rawRet.val.predictions_made_at = [tz |-> "UTC", minutes |-> 2 * 1440 + 600, second |-> 0]

\* What keeps a record object from being a RawHourlyForecast.
RecordDocIsMisshapen(rdoc) ==
    \/ ~(HourlyMandatoryKeys \subseteq DOMAIN rdoc)
    \/ ("time" \in DOMAIN rdoc
            /\ (rdoc.time.form # "iso" \/ IsNone(rdoc.time.offset)))
    \/ ("uv_index" \in DOMAIN rdoc /\ rdoc.uv_index \notin 0..255)

\* What keeps a feature object from being a RawFeature.
FeatureDocIsMisshapen(fdoc) ==
    \/ ~({"geometry", "properties"} \subseteq DOMAIN fdoc)
    \/ /\ {"geometry", "properties"} \subseteq DOMAIN fdoc
       /\ \/ ~InClosedRange(fdoc.geometry.coordinates[1], LongitudeLimit)
          \/ ~InClosedRange(fdoc.geometry.coordinates[2], LatitudeLimit)
          \/ fdoc.properties.modelRunDate.form # "iso"
          \/ IsNone(fdoc.properties.modelRunDate.offset)
          \/ \E i \in 1..Len(fdoc.properties.timeSeries) :
                RecordDocIsMisshapen(fdoc.properties.timeSeries[i])

\* The input is not a document of the expected shape.
InputIsMisshapen ==
    \/ (FromBytesCall /\ ~rawCall.bytes.utf8)
    \/ ParsedDoc.syntax # "json"
    \/ "features" \notin DOMAIN ParsedDoc
    \/ /\ ParsedDoc.syntax = "json"
       /\ "features" \in DOMAIN ParsedDoc
       /\ \E i \in 1..Len(ParsedDoc.features) : FeatureDocIsMisshapen(ParsedDoc.features[i])

\* The error the JSON library returned for the input.
LibraryError ==
    IF FromStrCall THEN FromStr(rawCall.period, rawCall.s)
    ELSE FromSlice(rawCall.period, rawCall.bytes)

\* C19: parsing text or bytes that do not deserialize as the expected shape
\* fails with Error::Serde holding the library's error as it was, and no
\* record conversion is attempted.
C19_MisshapenInputIsSerdeError ==
    (ParseCall /\ InputIsMisshapen)
        => /\ IsErr(rawRet)
           /\ rawRet.err.kind = "Serde"
           /\ IsErr(LibraryError)
           /\ rawRet.err.inner = LibraryError.err
           /\ attempted = <<>>

\* A document whose first record has an unknown code and whose second lacks a
\* mandatory key: the parse fails on the shape and converts nothing.
C19_Witness ==
    /\ FromStrCall
    /\ rawCall.s.syntax = "json"
    /\ "features" \in DOMAIN rawCall.s
    /\ Len(rawCall.s.features) = 1
    /\ "properties" \in DOMAIN rawCall.s.features[1]
    /\ Len(rawCall.s.features[1].properties.timeSeries) = 2
    /\ rawCall.s.features[1].properties.timeSeries[1].significant_weather_code = 4
    /\ "visibility" \notin DOMAIN rawCall.s.features[1].properties.timeSeries[2]
    /\ InClosedRange(rawCall.s.features[1].geometry.coordinates[1], LongitudeLimit)
    /\ rawRet = Err(Serde("missing field"))
    /\ attempted = <<>>

(***************************************************************************)
(* Properties of concurrent conversions (SpecThreads).                     *)
(***************************************************************************)
\* C20: under every interleaving, a conversion run by a thread on its own
\* input returns what the same conversion returns when run alone.
C20_ConcurrentConversionsAgreeWithAlone ==
    \A t \in DOMAIN threads :
        threads[t].pc = "done"
            => threads[t].out = ForecastTryFrom(threads[t].period, threads[t].input)

\* Thread 2 has returned two predictions while thread 1, converting another
\* envelope, is between its first and its second record.
C20_Witness ==
    /\ threads # <<>>
    /\ threads[1].pc = "collect"
    /\ threads[1].i = 2
    /\ threads[1].input # threads[2].input
    /\ threads[2].pc = "done"
    /\ IsOk(threads[2].out)
    /\ Len(threads[2].out.val.predictions) = 2

(***************************************************************************)
(* Properties of the UV advisory tier (SpecDisplay).                       *)
(***************************************************************************)
UvCall == call.op = "UvIndex::from"

AdviceCall == call.op = "UvIndex::advice_message"

\* The documented bands, tier by tier.
UvBands ==
    [None |-> {0}, Low |-> 1..2, Moderate |-> 3..5, High |-> 6..7,
     VeryHigh |-> 8..10, Extreme |-> 11..U8Max]

\* The advice each tier gets (units.rs words it for 0-2, 3-5 and 6 up).
AdviceOfTier ==
    [None |-> "No protection required. You can safely stay outside.",
     Low |-> "No protection required. You can safely stay outside.",
     Moderate |-> "Seek shade during midday hours, cover up and wear sunscreen.",
     High |->
        "Avoid being outside during midday hours. Shirt, sunscreen and hat are essential.",
     VeryHigh |->
        "Avoid being outside during midday hours. Shirt, sunscreen and hat are essential.",
     Extreme |->
        "Avoid being outside during midday hours. Shirt, sunscreen and hat are essential."]

\* C21: UvIndex::from returns a tier for every u8; the six bands (0 None,
\* 1-2 Low, 3-5 Moderate, 6-7 High, 8-10 VeryHigh, 11 and above Extreme) are
\* pairwise disjoint and cover 0..255; the tier returned is the one whose band
\* holds the value, and it carries that value and nothing else (None, whose
\* band is the single value 0, carries nothing), so the tier can always be
\* recomputed from the value.  The advice of units.rs is the same for every
\* value of a tier.
C21_UvTierIsTotalOverDisjointBands ==
    /\ \A a, b \in DOMAIN UvBands : a # b => UvBands[a] \cap UvBands[b] = {}
    /\ UNION {UvBands[t] : t \in DOMAIN UvBands} = U8
    /\ UvCall =>
            /\ ret.tag = "Returned"
            /\ ret.val.variant \in DOMAIN UvBands
            /\ call.value \in UvBands[ret.val.variant]
            /\ ret.val.payload = IF ret.val.variant = "None" THEN None
                                 ELSE Some(call.value)
    /\ AdviceCall =>
            /\ ret.tag = "Returned"
            /\ \E t \in DOMAIN UvBands :
                    call.value \in UvBands[t] /\ ret.val = AdviceOfTier[t]

\* The lowest value of VeryHigh, one above the top of High.
C21_Witness ==
    /\ UvCall
    /\ call.value = 8
    /\ ret.val = UvTier("VeryHigh", Some(8))

(***************************************************************************)
(* Properties of the text of Conditions (SpecConditionsText).              *)
(***************************************************************************)
Printed(i) == conds[i] # NotCalled

\* The day and night siblings, pair by pair.
SiblingPairs ==
    {{"PartlyCloudyNight", "PartlyCloudyDay"},
     {"LightRainShowerNight", "LightRainShowerDay"},
     {"HeavyRainShowerNight", "HeavyRainShowerDay"},
     {"SleetShowerNight", "SleetShowerDay"},
     {"HailShowerNight", "HailShowerDay"},
     {"LightSnowShowerNight", "LightSnowShowerDay"},
     {"HeavySnowShowerNight", "HeavySnowShowerDay"},
     {"ThunderShowerNight", "ThunderShowerDay"}}

\* C22: every variant prints as a description (a text that is not empty); the
\* two variants of each of the eight day/night pairs are different values and
\* print as the same text; two different variants that are not such a pair
\* print as different texts.
C22_SiblingsPrintAlikeOthersApart ==
    /\ \A pair \in SiblingPairs : Cardinality(pair) = 2 /\ pair \subseteq ConditionsVariants
    /\ \A i \in 1..2 : Printed(i) => conds[i].tag = "Returned" /\ conds[i].val.text # ""
    /\ (Printed(1) /\ Printed(2) /\ conds[1].val.of # conds[2].val.of)
            => (conds[1].val.text = conds[2].val.text
                    <=> {conds[1].val.of, conds[2].val.of} \in SiblingPairs)

\* The sleet showers of night and day, printed alike.
C22_Witness ==
    /\ Printed(1) /\ Printed(2)
    /\ conds[1].val.of = "SleetShowerNight"
    /\ conds[2].val.of = "SleetShowerDay"
    /\ conds[1].val.text = "Sleet shower"
    /\ conds[2].val.text = "Sleet shower"

(***************************************************************************)
(* Properties of the daily conversion, continued (SpecDaily).              *)
(***************************************************************************)
\* The raw fields of the night: the midnight readings and the night_ fields.
NightRawFields ==
    {"midnight_10m_wind_speed", "midnight_10m_wind_direction", "midnight_10m_wind_gust",
     "midnight_visibility", "midnight_relative_humidity", "midnight_mslp",
     "night_significant_weather_code", "night_min_screen_temperature",
     "night_upper_bound_min_temp", "night_lower_bound_min_temp",
     "night_min_feels_like_temp", "night_upper_bound_min_feels_like_temp",
     "night_lower_bound_min_feels_like_temp", "night_probability_of_precipitation",
     "night_probability_of_rain", "night_probability_of_heavy_rain",
     "night_probability_of_snow", "night_probability_of_heavy_snow",
     "night_probability_of_hail", "night_probability_of_sferics"}

\* A raw record cut down to its night fields.
NightPart(rf) == [k \in NightRawFields |-> rf[k]]

\* The Night a night part stands for; np has no day field to read.
NightFromPart(np) ==
    [wind_speed |-> MetresPerSecond(np.midnight_10m_wind_speed),
     wind_direction |-> Degrees(np.midnight_10m_wind_direction),
     wind_gust_speed |-> MetresPerSecond(np.midnight_10m_wind_gust),
     visibility |-> Metres(np.midnight_visibility),
     relative_humidity |-> Percentage(np.midnight_relative_humidity),
     pressure |-> Pascals(np.midnight_mslp),
     conditions |-> ConditionsTryFrom(np.night_significant_weather_code).val,
     temperature_minimum |->
         [most_likely |-> Celsius(np.night_min_screen_temperature),
          upper_bound |-> Celsius(np.night_upper_bound_min_temp),
          lower_bound |-> Celsius(np.night_lower_bound_min_temp)],
     temperature_feels_like_minimum |->
         [most_likely |-> Celsius(np.night_min_feels_like_temp),
          upper_bound |-> Celsius(np.night_upper_bound_min_feels_like_temp),
          lower_bound |-> Celsius(np.night_lower_bound_min_feels_like_temp)],
     precipitation_probability |-> Percentage(np.night_probability_of_precipitation),
     rain_probability |-> Percentage(np.night_probability_of_rain),
     heavy_rain_probability |-> Percentage(np.night_probability_of_heavy_rain),
     snow_probability |-> Percentage(np.night_probability_of_snow),
     heavy_snow_probability |-> Percentage(np.night_probability_of_heavy_snow),
     hail_probability |-> Percentage(np.night_probability_of_hail),
     lightning_probability |-> Percentage(np.night_probability_of_sferics)]

\* C23: the Night of every converted daily record, Past or Future, is the
\* complete Night (all sixteen fields, none of them optional) that its raw
\* night and midnight fields stand for, whatever the day fields hold; so it
\* is for a record converted on its own and for every place of a converted
\* series.
C23_NightDependsOnNightFieldsOnly ==
    /\ (DailyCall /\ IsOk(rawRet))
            => rawRet.val.night = NightFromPart(NightPart(rawCall.rf))
    /\ (ForecastDailyCall /\ IsOk(rawRet))
            => \A i \in 1..Len(SeriesOfCall) :
                  rawRet.val.predictions[i].night = NightFromPart(NightPart(SeriesOfCall[i]))

\* A converted series whose first record became Past and whose second
\* became Future.
C23_Witness ==
    /\ ForecastDailyCall
    /\ IsOk(rawRet)
    /\ Len(rawRet.val.predictions) >= 2
    /\ rawRet.val.predictions[1].day.variant = "Past"
    /\ rawRet.val.predictions[2].day.variant = "Future"
    /\ rawRet.val.predictions[1].night.conditions = "PartlyCloudyNight"
    /\ rawRet.val.predictions[2].night.conditions = "PartlyCloudyNight"

(***************************************************************************)
(* Properties of the parse entry points, continued (SpecForecast).         *)
(***************************************************************************)
\* The document has a feature whose coordinates leave the valid range.
CoordinatesOutOfRange(fdoc) ==
    /\ "geometry" \in DOMAIN fdoc
    /\ \/ ~InClosedRange(fdoc.geometry.coordinates[1], LongitudeLimit)
       \/ ~InClosedRange(fdoc.geometry.coordinates[2], LatitudeLimit)

DocHasPlaceOutOfRange ==
    /\ ~(FromBytesCall /\ ~rawCall.bytes.utf8)
    /\ ParsedDoc.syntax = "json"
    /\ "features" \in DOMAIN ParsedDoc
    /\ \E i \in 1..Len(ParsedDoc.features) : CoordinatesOutOfRange(ParsedDoc.features[i])

FutureOnlyFields ==
    {"max_uv_index", "day_significant_weather_code"} \cup DayProbabilityFields

HasFutureOnlyField(rf) == \E k \in FutureOnlyFields : IsSome(rf[k])

\* The record with every one of those fields taken out.
WithoutFutureOnlyFields(rf) ==
    [k \in DOMAIN rf |-> IF k \in FutureOnlyFields THEN None ELSE rf[k]]

\* The fields of Day::Past (with the tag of the variant).
PastFields ==
    {"variant", "wind_speed", "wind_direction", "wind_gust_speed", "visibility",
     "relative_humidity", "pressure", "temperature_maximum",
     "temperature_feels_like_maximum_upper_bound",
     "temperature_feels_like_maximum_lower_bound"}

\* C25: a raw daily record without the max-feels-like temperature but with
\* a max UV index, a day weather code or day probabilities converts exactly
\* as the same record without them does (the same Ok value or the same
\* error, an unknown day code included), and when it converts its day is
\* Day::Past with the fields of Past and no others.
C25_PastIgnoresFutureOnlyFields ==
    (DailyCall /\ LacksMaxFeelsLike(rawCall.rf) /\ HasFutureOnlyField(rawCall.rf))
        => /\ rawRet = DailyTryFrom(WithoutFutureOnlyFields(rawCall.rf))
           /\ ~IsPanic(rawRet)
           /\ IsOk(rawRet) <=> NightCodeKnown(rawCall.rf)
           /\ IsOk(rawRet) =>
                  /\ rawRet.val.day.variant = "Past"
                  /\ DOMAIN rawRet.val.day = PastFields

\* A record with a UV index, the unknown day code 4 and every day
\* probability, but no max-feels-like temperature, converted to Past.
C25_Witness ==
    /\ DailyCall
    /\ LacksMaxFeelsLike(rawCall.rf)
    /\ rawCall.rf.max_uv_index = Some(13)
    /\ rawCall.rf.day_significant_weather_code = Some(4)
    /\ \A k \in DayProbabilityFields : IsSome(rawCall.rf[k])
    /\ IsOk(rawRet)
    /\ rawRet.val.day.variant = "Past"

(***************************************************************************)
(* Properties of the text of Latitude and Longitude (SpecDisplay).         *)
(***************************************************************************)
LatitudeDisplayCall == call.op = "Latitude::fmt"

LongitudeDisplayCall == call.op = "Longitude::fmt"

\* text is the absolute value of x as a decimal with three fraction digits,
\* the degree sign, a space and one letter: positive when x is above zero,
\* negative when x is below zero (either letter when x is a zero).
IsHemisphereText(text, x, positive, negative) ==
    LET number == SubSeq(text, 1, Len(text) - 3)
    IN  /\ Len(text) > 3
        /\ IsDecimal(number)
        /\ Len(DecimalParts(number).frac) = 3
        /\ DecimalParts(number).sign = 1
        /\ DecimalIsExact(number)
        /\ DecimalValue(number) = Fin(1, x.m)
        /\ SubSeq(text, Len(text) - 2, Len(text) - 1) = <<DegreeSign, " ">>
        /\ text[Len(text)] \in {positive, negative}
        /\ Steps(x) > 0 => text[Len(text)] = positive
        /\ Steps(x) < 0 => text[Len(text)] = negative

\* C26: a Latitude prints as its absolute value with N when it is positive
\* and S when it is negative, and a Longitude as its absolute value with E
\* when it is positive and W when it is negative.
C26_HemisphereLettersFollowConvention ==
    /\ LatitudeDisplayCall
            => /\ ret.tag = "Returned"
               /\ IsHemisphereText(ret.val, LatitudeAsFloat(call.latitude), "N", "S")
    /\ LongitudeDisplayCall
            => /\ ret.tag = "Returned"
               /\ IsHemisphereText(ret.val, LongitudeAsFloat(call.longitude), "E", "W")

(***************************************************************************)
(* Properties of the envelope conversion, continued (SpecForecast).        *)
(***************************************************************************)
\* The envelope handed to Forecast::try_from, cut down to its first feature.
FirstFeatureOnly == [features |-> <<rawCall.value.features[1]>>]

\* Some feature after the first holds a record whose conversion fails.
LaterFeatureFails ==
    \E j \in 2..Len(rawCall.value.features) :
        \E i \in 1..Len(rawCall.value.features[j].properties.time_series) :
            IsErr(RecordTryFrom(rawCall.period,
                                rawCall.value.features[j].properties.time_series[i]))

\* C27: for a collection of more than one feature Forecast::try_from returns
\* what it returns for the collection of the first feature alone, Ok or Err;
\* so when every record of the first feature converts the result is Ok, even
\* if a later feature holds an unknown weather code.
C27_LaterFeaturesAreNotRead ==
    (EnvelopeCall /\ Len(rawCall.value.features) > 1)
        => /\ rawRet = ForecastTryFrom(rawCall.period, FirstFeatureOnly)
           /\ (\A i \in 1..Len(EnvelopeSeries) :
                    IsOk(RecordTryFrom(rawCall.period, EnvelopeSeries[i])))
                  => IsOk(rawRet)

\* Three features, the third with an unknown code: the one record of the
\* first feature was converted.
C27_Witness ==
    /\ EnvelopeCall
    /\ Len(rawCall.value.features) = 3
    /\ LaterFeatureFails
    /\ IsOk(rawRet)
    /\ Len(rawRet.val.predictions) = 1

(***************************************************************************)
(* Properties of the parse entry points: text against bytes                *)
(* (SpecForecast).                                                         *)
(***************************************************************************)
\* The bytes of a text.
BytesOf(s) == [utf8 |-> TRUE, text |-> s]

PredictionOf(most_likely, upper_bound, lower_bound) ==
    [most_likely |-> [unit |-> "Celsius", v |-> most_likely],
     upper_bound |-> [unit |-> "Celsius", v |-> upper_bound],
     lower_bound |-> [unit |-> "Celsius", v |-> lower_bound]]

\* The daily value d has its predictions wired from the raw record rf.
PredictionsWiredFrom(d, rf) ==
    /\ d.day.temperature_maximum
           = PredictionOf(rf.day_max_screen_temperature,
                          rf.day_upper_bound_max_temp,
                          rf.day_lower_bound_max_temp)
    /\ d.day.variant = "Future"
           => d.day.temperature_feels_like_maximum
                  = PredictionOf(rf.day_max_feels_like_temp[1],
                                 rf.day_upper_bound_max_feels_like_temp,
                                 rf.day_lower_bound_max_feels_like_temp)
    /\ d.night.temperature_minimum
           = PredictionOf(rf.night_min_screen_temperature,
                          rf.night_upper_bound_min_temp,
                          rf.night_lower_bound_min_temp)
    /\ d.night.temperature_feels_like_minimum
           = PredictionOf(rf.night_min_feels_like_temp,
                          rf.night_upper_bound_min_feels_like_temp,
                          rf.night_lower_bound_min_feels_like_temp)

\* The six readings of the day are the midday ones of rf, the six of the
\* night the midnight ones.
ReadingsWiredFrom(d, rf) ==
    /\ <<d.day.wind_speed.v, d.day.wind_direction.v, d.day.wind_gust_speed.v,
          d.day.visibility.v, d.day.relative_humidity.v, d.day.pressure.v>>
           = <<rf.midday_10m_wind_speed, rf.midday_10m_wind_direction,
               rf.midday_10m_wind_gust, rf.midday_visibility,
               rf.midday_relative_humidity, rf.midday_mslp>>
    /\ <<d.night.wind_speed.v, d.night.wind_direction.v, d.night.wind_gust_speed.v,
          d.night.visibility.v, d.night.relative_humidity.v, d.night.pressure.v>>
           = <<rf.midnight_10m_wind_speed, rf.midnight_10m_wind_direction,
               rf.midnight_10m_wind_gust, rf.midnight_visibility,
               rf.midnight_relative_humidity, rf.midnight_mslp>>

\* The raw temperature readings of a record that has them all.
TemperatureReadings(rf) ==
    <<rf.day_max_screen_temperature, rf.day_upper_bound_max_temp,
      rf.day_lower_bound_max_temp, rf.day_max_feels_like_temp[1],
      rf.day_upper_bound_max_feels_like_temp, rf.day_lower_bound_max_feels_like_temp,
      rf.night_min_screen_temperature, rf.night_upper_bound_min_temp,
      rf.night_lower_bound_min_temp, rf.night_min_feels_like_temp,
      rf.night_upper_bound_min_feels_like_temp, rf.night_lower_bound_min_feels_like_temp>>

\* C29: in every converted daily record the most likely value, the upper
\* bound and the lower bound of each temperature prediction are the raw
\* most-likely, upper-bound and lower-bound readings of that same quantity:
\* the day's maximum, the day's feels-like maximum (Future), the night's
\* minimum and the night's feels-like minimum; and the Day carries the
\* midday readings, the Night the midnight ones.
C29_PredictionsAreWiredToTheirOwnFields ==
    /\ (DailyCall /\ IsOk(rawRet))
            => /\ PredictionsWiredFrom(rawRet.val, rawCall.rf)
               /\ ReadingsWiredFrom(rawRet.val, rawCall.rf)
    /\ (ForecastDailyCall /\ IsOk(rawRet))
            => \A i \in 1..Len(SeriesOfCall) :
                  /\ PredictionsWiredFrom(rawRet.val.predictions[i], SeriesOfCall[i])
                  /\ ReadingsWiredFrom(rawRet.val.predictions[i], SeriesOfCall[i])

\* A converted Future record whose twelve temperature readings all differ.
C29_Witness ==
    /\ DailyCall
    /\ IsOk(rawRet)
    /\ rawRet.val.day.variant = "Future"
    /\ \A i, j \in 1..12 :
          i # j => TemperatureReadings(rawCall.rf)[i] # TemperatureReadings(rawCall.rf)[j]

(***************************************************************************)
(* Properties of the daily conversion: the day before the night            *)
(* (SpecDaily).                                                            *)
(***************************************************************************)
\* A record that takes the Future branch with both of its codes unknown.
BothCodesUnknown(rf) ==
    /\ ~LacksMaxFeelsLike(rf)
    /\ DayCodeUnknown(rf)
    /\ ~NightCodeKnown(rf)

\* The day portion of rf converts: the record becomes Past, or it becomes
\* Future with every optional day field present and a known day code.
DayConverts(rf) ==
    \/ LacksMaxFeelsLike(rf)
    \/ /\ IsSome(rf.max_uv_index)
       /\ IsSome(rf.day_significant_weather_code)
       /\ rf.day_significant_weather_code[1] \in KnownCodes
       /\ \A f \in DayProbabilityFields : IsSome(rf[f])

\* The result is the error that carries the given code.
ReportsCode(r, code) == IsUnknownConditionError(r) /\ r.err.code = code

\* The night code of rf, which is not also its day code, is what was reported.
ReportsNightCode(rf, r) ==
    /\ ReportsCode(r, rf.night_significant_weather_code)
    /\ rf.day_significant_weather_code # Some(rf.night_significant_weather_code)

\* The order of evaluation as far as a result is returned at all: of two
\* unknown codes the day's is the one reported, and the night's is reported
\* only after the day portion converted.
DayIsReportedFirstUnlessAborted ==
    DailyCall =>
        /\ (BothCodesUnknown(rawCall.rf) /\ ~IsPanic(rawRet))
                => ReportsCode(rawRet, rawCall.rf.day_significant_weather_code[1])
        /\ ReportsNightCode(rawCall.rf, rawRet) => DayConverts(rawCall.rf)

\* C30: the day portion is evaluated before the night portion.  A record that
\* takes the Future branch with an unknown day code and an unknown night code
\* returns the error carrying the day code, and the night code is reported
\* only when the day portion converted.
C30_DayCodeIsReportedBeforeNightCode ==
    DailyCall =>
        /\ BothCodesUnknown(rawCall.rf)
                => ReportsCode(rawRet, rawCall.rf.day_significant_weather_code[1])
        /\ ReportsNightCode(rawCall.rf, rawRet) => DayConverts(rawCall.rf)

====
